---------------------------- MODULE Spec2Model ----------------------------
(***************************************************************************)
(* Peak detection and peak/track matching of the Hough analysis            *)
(* (services/hough_matcher.py, services/peak_detector.py,                   *)
(* services/track_slicer.py, facades/analysis_facade.py).                   *)
(*                                                                         *)
(* Numbers.  Python floats are modelled in fixed point.  Coordinates       *)
(* (Peak.x, Peak.y, Track.curv_bin, Track.phi_bin, tolerance) and grid     *)
(* values are counted in HALF bins / half units: the model value 7 stands  *)
(* for 3.5.  Bins(n) converts a whole number to that unit and IntOf is     *)
(* Python's int() on it.  Cotangents are counted in 1/1024.                 *)
(* Lists (peaks, tracks, masks) are 1-based sequences, the index 0 stands  *)
(* for Python's None; grid rows and columns are 0-based as in the source.  *)
(***************************************************************************)
EXTENDS Integers, Sequences, FiniteSets, TLC

VARIABLES
    \* ---- one call of HoughMatcherService.match_and_extract_squares ----
    match_pc,             \* "idle" | "loop" | "returned"
    match_config,         \* [square_size, tolerance] (HoughConfig)
    accumulator_values,   \* the grid argument
    reconstructed_peaks,  \* the peak list argument
    true_tracks_list,     \* the admitted-track list argument
    assignment_mask,      \* local: np.zeros(len(true_tracks))
    square_collection,    \* local: the HoughSquareCollection being filled
    peak_pos,             \* number of peaks the for loop has consumed
    returned              \* per consumed peak, what _extract_and_classify_square returned

VARIABLES
    \* ---- one call of PeakDetectorService._vectorized_sliding_peaks ----
    pf_pc,            \* "idle" | "merge" | "returned" | "raised"
    pf_variant,       \* "service" | "legacy" (peak_detection.py)
    pf_config,        \* [threshold_abs, min_distance] (PeakDetectionConfig)
    matrix,           \* the grid argument
    peak_coords,      \* the candidates <<row, col>>, in np.where order
    close_pairs,      \* the index pairs <<i, j>> of close candidates, in np.where order
    pair_pos,         \* number of close pairs the merge loop has consumed
    peaks_to_keep,    \* the set of candidate indices still kept
    removed_by,       \* candidate index -> the candidate whose pair removed it (0: kept)
    pf_result         \* the coordinates returned

VARIABLES
    \* ---- HoughAnalysisFacade, one _process_histogram call per step ----
    facade_pc,                 \* "running" | "raised" (an exception left the facade)
    facade_config,             \* AnalysisConfig
    heap,                      \* the Track objects, by identity (1..Len(heap))
    tracks_dict,               \* event id -> TrackCollection: the identities it holds
    histograms,                \* what HoughRepository.iter_histograms yields, in order
    hist_pos,                  \* number of histograms the loop has completed
    stats,                     \* AnalysisStatistics
    facade_square_collection,  \* HoughAnalysisFacade._square_collection
    observer_log,              \* the observer callbacks made so far
    last_pass,                 \* the locals of the latest _process_histogram call
    cast_of_nonfinite          \* what ndarray.astype(int) makes of nan, inf and -inf

VARIABLES
    \* ---- main.py / hough_processing.py, one key of process_root_file per step ----
    legacy_pc,        \* "running" | "raised" (an exception left the program)
    truetracks,       \* event id -> the rows of its DataFrame, 'reco' included
    legacy_keys,      \* the TH2 objects of the file, in key order
    ikey,             \* number of keys the loop has completed
    event_list,       \* the events seen
    true_squares,     \* the list of true squares
    false_squares,    \* the list of false squares
    n_truetracks,     \* the running count of admitted tracks
    legacy_pass       \* the locals of the latest match_and_write call

VARIABLES
    \* ---- the selection of an easing by name, and the calls made on it ----
    sel_pc,           \* "idle" | "created" | "raised" (ValueError)
    sel_path,         \* "factory" (EasingStrategyFactory.create) | "legacy" (HoughSlicer)
    sel_name,         \* the name handed to the constructor
    sel_calls         \* the calls made on the object so far, with what they returned

VARIABLES
    \* ---- one event's tracks handed to the slice filter of both programs ----
    flt_config,       \* AnalysisConfig of the TrackSlicerService
    flt_heap,         \* the Track objects of the event, by identity
    flt_slice_num,    \* the slice number
    flt_service_pc,   \* "idle" | "returned" (filter_tracks_for_slice)
    flt_filtered,     \* the identities filter_tracks_for_slice returned
    flt_legacy_pc,    \* "idle" | "returned" | "raised" (the mask of match_and_write)
    flt_mask          \* the mask of match_and_write over the rows

VARIABLES
    \* ---- two calls of update_track_reconstruction_status on one event, their
    \* ---- reads and writes of Track.is_reconstructed interleaved
    upd_heap,         \* the Track objects of the event, by identity
    upd_prior,        \* is_reconstructed of each track before the two calls
    upd_tracks,       \* per call, the tracks argument: identities in order
    upd_masks,        \* per call, the assignment_mask argument
    upd_pc,           \* per call, "test" | "write" | "returned"
    upd_idx,          \* per call, the index the for loop is at (from 1)
    upd_count         \* per call, the local newly_reconstructed

VARIABLES
    \* ---- one HoughSquareCollection and the calls made on it ----
    coll_squares,     \* the collection: _true_positives and _false_positives
    coll_ops,         \* number of calls made so far
    coll_result       \* the latest call, whether it raised, and the (X, y) returned

pf_vars == <<pf_pc, pf_variant, pf_config, matrix, peak_coords, close_pairs, pair_pos,
             peaks_to_keep, removed_by, pf_result>>

match_vars == <<match_pc, match_config, accumulator_values, reconstructed_peaks,
                true_tracks_list, assignment_mask, square_collection, peak_pos,
                returned>>

facade_vars == <<facade_pc, facade_config, heap, tracks_dict, histograms, hist_pos, stats,
                 facade_square_collection, observer_log, last_pass, cast_of_nonfinite>>

legacy_vars == <<legacy_pc, truetracks, legacy_keys, ikey, event_list, true_squares,
                 false_squares, n_truetracks, legacy_pass>>

sel_vars == <<sel_pc, sel_path, sel_name, sel_calls>>

flt_vars == <<flt_config, flt_heap, flt_slice_num, flt_service_pc, flt_filtered,
              flt_legacy_pc, flt_mask>>

upd_vars == <<upd_heap, upd_prior, upd_tracks, upd_masks, upd_pc, upd_idx, upd_count>>

coll_vars == <<coll_squares, coll_ops, coll_result>>

vars == <<match_vars, pf_vars, facade_vars, legacy_vars, sel_vars, flt_vars, upd_vars,
          coll_vars>>

\* what a step of one frame leaves alone
not_match_vars == <<pf_vars, facade_vars, legacy_vars, sel_vars, flt_vars, upd_vars,
    coll_vars>>
not_pf_vars == <<match_vars, facade_vars, legacy_vars, sel_vars, flt_vars, upd_vars,
    coll_vars>>
not_facade_vars == <<match_vars, pf_vars, legacy_vars, sel_vars, flt_vars, upd_vars,
    coll_vars>>
not_legacy_vars == <<match_vars, pf_vars, facade_vars, sel_vars, flt_vars, upd_vars,
    coll_vars>>
not_sel_vars == <<match_vars, pf_vars, facade_vars, legacy_vars, flt_vars, upd_vars,
    coll_vars>>
not_flt_vars == <<match_vars, pf_vars, facade_vars, legacy_vars, sel_vars, upd_vars,
    coll_vars>>
not_upd_vars == <<match_vars, pf_vars, facade_vars, legacy_vars, sel_vars, flt_vars,
    coll_vars>>
not_coll_vars == <<match_vars, pf_vars, facade_vars, legacy_vars, sel_vars, flt_vars,
    upd_vars>>

---------------------------------------------------------------------------
(* Bounds of the model *)

\* rows and columns of the small grids
GridRows == 3
GridCols == 4
\* longest peak list and longest admitted-track list handed to the matcher
MaxPeaks == 2
MaxTracks == 2
\* HoughConfig.square_size of the small configurations (the program's default is 16)
SmallSize == 1
\* rows and columns of the grids handed to the peak finder, and the largest
\* number of their cells that are not zero
PfRows == 5
PfCols == 6
MaxHot == 2
\* longest histogram sequence a run of the facade iterates over
MaxHistograms == 2

---------------------------------------------------------------------------
(* Arithmetic helpers *)

Max(a, b) == IF a >= b THEN a ELSE b
Min(a, b) == IF a <= b THEN a ELSE b

\* a whole number in the fixed-point unit (half bins)
Bins(n) == 2 * n

\* Python int() of a fixed-point value: truncation toward zero
IntOf(v) == IF v >= 0 THEN v \div 2 ELSE 0 - ((0 - v) \div 2)

\* the encodings of the values that are not finite
NaN == 2 ^ 20
PosInf == 2 ^ 20 + 1
NegInf == 2 ^ 20 + 2
NonFinite == {NaN, PosInf, NegInf}
IsFinite(v) == v \notin NonFinite

\* the encodings of the least and the greatest int64
INT64_MIN == 0 - (2 ^ 21)
INT64_MAX == 2 ^ 21

\* the cast of a value that is not finite to int is undefined: numpy returns
\* what the platform's conversion makes of it (the least int64 for all three on
\* x86-64; 0, the greatest and the least int64 on AArch64)
CastOutcomes == [NonFinite -> {INT64_MIN, 0, INT64_MAX}]

\* the runs whose grids are finite never evaluate the cast
CastUnobserved == cast_of_nonfinite = [v \in NonFinite |-> INT64_MIN]

\* ndarray.astype(int) of one grid value: truncation toward zero of a finite
\* value
astype_int_rounding(v) == IF IsFinite(v) THEN (v + 1) \div 2 ELSE cast_of_nonfinite[v]
astype_int(v) == IF IsFinite(v) THEN IntOf(v) ELSE cast_of_nonfinite[v]

RECURSIVE SumSeq(_)
SumSeq(s) == IF s = <<>> THEN 0 ELSE Head(s) + SumSeq(Tail(s))

\* all sequences over S of length at most n
SeqsUpTo(S, n) == UNION {[1..k -> S] : k \in 0..n}

---------------------------------------------------------------------------
(* domain/peak.py *)

Peak(x, y, height) == [x |-> x, y |-> y, height |-> height]

\* Peak.distance_to returns sqrt(dx^2 + dy^2); the model keeps the square,
\* in (half bins)^2, which is exact
distance_along_y_sq(self, other) ==
    (self.y - other.y) * (self.y - other.y)
distance_to_sq(self, other) ==
    (self.x - other.x) * (self.x - other.x) + (self.y - other.y) * (self.y - other.y)

\* Peak.is_within_tolerance: distance_to(other) <= tolerance.  For the exact
\* inputs of the model sqrt(d2) <= t iff t >= 0 and d2 <= t*t.
is_within_tolerance_strict(self, other, tolerance) ==
    tolerance >= 0 /\ distance_to_sq(self, other) < tolerance * tolerance
is_within_tolerance(self, other, tolerance) ==
    tolerance >= 0 /\ distance_to_sq(self, other) <= tolerance * tolerance

---------------------------------------------------------------------------
(* domain/hough_square.py *)

TRUE_POSITIVE == "true_positive"
FALSE_POSITIVE == "false_positive"
UNCLASSIFIED == "unclassified"

\* a 2D array: its shape and its values, rows and columns 0-based
Array2D(nrows, ncols, f(_, _)) ==
    [shape |-> <<nrows, ncols>>,
     at |-> [r \in 0..(nrows - 1) |-> [c \in 0..(ncols - 1) |-> f(r, c)]]]

\* values[x_start:x_end, y_start:y_end] for 0 <= start <= end <= shape
Slice2D(values, x_start, x_end, y_start, y_end) ==
    LET v(r, c) == values.at[x_start + r][y_start + c]
    IN Array2D(x_end - x_start, y_end - y_start, v)

HoughSquare(data, classification, center_x, center_y) ==
    [data |-> data, classification |-> classification,
     center_x |-> center_x, center_y |-> center_y]

\* Python's None where a square is expected
NoSquare == [none |-> TRUE]

\* HoughSquare.__post_init__ (lines 34-39): raises unless the data is square
\* (a region cut from a 2D grid always has ndim = 2)
post_init_ok(data) == data.shape[1] = data.shape[2]

\* HoughSquareCollection: the two lists, each in insertion order
EmptyCollection == [true_positives |-> <<>>, false_positives |-> <<>>]

\* add_square (lines 93-100); an unclassified square raises ValueError and
\* leaves the lists as they are
add_square(coll, square) ==
    IF square.classification = TRUE_POSITIVE
    THEN [coll EXCEPT !.true_positives = Append(@, square)]
    ELSE IF square.classification = FALSE_POSITIVE
    THEN [coll EXCEPT !.false_positives = Append(@, square)]
    ELSE coll

true_positive_count(coll) == Len(coll.true_positives)
false_positive_count(coll) == Len(coll.false_positives)
total_count(coll) == true_positive_count(coll) + false_positive_count(coll)

\* add_true_positive (lines 81-85) and add_false_positive (lines 87-91): a
\* square of another classification raises ValueError
add_true_positive(coll, square) ==
    IF square.classification # TRUE_POSITIVE
    THEN [status |-> "ValueError", coll |-> coll]
    ELSE [status |-> "ok", coll |-> [coll EXCEPT !.true_positives = Append(@, square)]]

add_false_positive(coll, square) ==
    IF square.classification # FALSE_POSITIVE
    THEN [status |-> "ValueError", coll |-> coll]
    ELSE [status |-> "ok", coll |-> [coll EXCEPT !.false_positives = Append(@, square)]]

\* clear (lines 141-144)
clear(coll) == [coll EXCEPT !.true_positives = <<>>, !.false_positives = <<>>]

\* [sq.data for sq in squares]
DataOf(squares) == [k \in 1..Len(squares) |-> squares[k].data]

\* np.stack(arrays, axis=0): ValueError for an empty list ("need at least one
\* array to stack") and for arrays of different shapes; otherwise the array
\* whose entries along axis 0 are the arrays
np_stack(arrays) ==
    IF Len(arrays) = 0 \/ \E j, k \in 1..Len(arrays) : arrays[j].shape # arrays[k].shape
    THEN [status |-> "ValueError", stacked |-> <<>>]
    ELSE [status |-> "ok", stacked |-> arrays]

\* np.vstack([a, b]) of two stacked arrays: concatenation along axis 0,
\* ValueError when the other dimensions differ
np_vstack(a, b) ==
    IF a[1].shape # b[1].shape
    THEN [status |-> "ValueError", stacked |-> <<>>]
    ELSE [status |-> "ok", stacked |-> a \o b]

\* np.ones(n) and np.zeros(n), then np.hstack (lines 129, 133, 137)
Labels(n_ones, n_zeros) ==
    [k \in 1..(n_ones + n_zeros) |-> IF k <= n_ones THEN 1 ELSE 0]

TrainingDataRaised == [status |-> "ValueError", X |-> <<>>, y |-> <<>>]

\* lines 136-139
TrainingDataOf(stacked, coll) ==
    IF stacked.status # "ok" THEN TrainingDataRaised
    ELSE [status |-> "ok", X |-> stacked.stacked,
          y |-> Labels(true_positive_count(coll), false_positive_count(coll))]

\* lines 127-139: the two stacks, the first raising before the second is made
TrainingDataOfStacks(true_data, false_data, coll) ==
    IF true_data.status # "ok" \/ false_data.status # "ok" THEN TrainingDataRaised
    ELSE TrainingDataOf(np_vstack(true_data.stacked, false_data.stacked), coll)

\* get_training_data (lines 117-139)
get_training_data(coll) ==
    IF total_count(coll) = 0
    THEN [status |-> "ok", X |-> <<>>, y |-> <<>>]
    ELSE TrainingDataOfStacks(np_stack(DataOf(coll.true_positives)),
                              np_stack(DataOf(coll.false_positives)), coll)

---------------------------------------------------------------------------
(* services/hough_matcher.py *)

\* the clipped extraction bounds of a peak's square (lines 97-109)
SquareBounds(values, peak, size) ==
    LET square_x == peak.x - Bins(size)
        square_y == peak.y - Bins(size)
    IN [center_x |-> square_x + Bins(size),
        center_y |-> square_y + Bins(size),
        x_start |-> Max(0, IntOf(square_y)),
        x_end |-> Min(values.shape[1], IntOf(square_y + Bins(2 * size))),
        y_start |-> Max(0, IntOf(square_x)),
        y_end |-> Min(values.shape[2], IntOf(square_x + Bins(2 * size)))]

\* lines 111-118: the region is empty, or its shape is not (2*size, 2*size)
RegionRejectedWhenEmpty(values, peak, size) ==
    LET b == SquareBounds(values, peak, size)
    IN b.x_end <= b.x_start \/ b.y_end <= b.y_start
RegionRejectedByRows(values, peak, size) ==
    LET b == SquareBounds(values, peak, size)
    IN \/ b.x_end <= b.x_start
       \/ b.y_end <= b.y_start
       \/ b.x_end - b.x_start # 2 * size
RegionRejected(values, peak, size) ==
    LET b == SquareBounds(values, peak, size)
    IN \/ b.x_end <= b.x_start
       \/ b.y_end <= b.y_start
       \/ <<b.x_end - b.x_start, b.y_end - b.y_start>> # <<2 * size, 2 * size>>

\* lines 124-140: the first track, in list order, that is not yet assigned and
\* lies within tolerance of the peak; 0 when there is none
FirstMatchIgnoringMask(peak, true_tracks, mask, tolerance) ==
    LET hits == {idx \in 1..Len(true_tracks) :
                    is_within_tolerance(
                        peak,
                        Peak(true_tracks[idx].curv_bin, true_tracks[idx].phi_bin, 0),
                        tolerance)}
    IN IF hits = {} THEN 0 ELSE CHOOSE idx \in hits : \A o \in hits : idx <= o
FirstMatch(peak, true_tracks, mask, tolerance) ==
    LET hits == {idx \in 1..Len(true_tracks) :
                    /\ ~(mask[idx] > 0)
                    /\ is_within_tolerance(
                           peak,
                           Peak(true_tracks[idx].curv_bin, true_tracks[idx].phi_bin, 0),
                           tolerance)}
    IN IF hits = {} THEN 0 ELSE CHOOSE idx \in hits : \A o \in hits : idx <= o

\* _extract_and_classify_square (lines 75-155): (square, has_match, matched_idx)
extract_and_classify_square(values, peak, true_tracks, mask, config) ==
    LET size == config.square_size
        b == SquareBounds(values, peak, size)
        matched_idx == FirstMatch(peak, true_tracks, mask, config.tolerance)
        has_match == matched_idx # 0
        square_region == Slice2D(values, b.x_start, b.x_end, b.y_start, b.y_end)
        data == Array2D(square_region.shape[1], square_region.shape[2],
                        LAMBDA r, c : astype_int(square_region.at[r][c]))
    IN IF RegionRejected(values, peak, size)
       THEN [square |-> NoSquare, has_match |-> FALSE, matched_idx |-> 0]
       ELSE [square |-> HoughSquare(data,
                                    IF has_match THEN TRUE_POSITIVE ELSE FALSE_POSITIVE,
                                    b.center_x, b.center_y),
             has_match |-> has_match,
             matched_idx |-> matched_idx]

\* one iteration of the for loop of match_and_extract_squares (lines 61-71):
\* the state after the iteration, given the state before it
MatchIterationMaskFirst(st, values, peak, true_tracks, config) ==
    LET ret == extract_and_classify_square(values, peak, true_tracks, st.mask, config)
    IN IF ret.square = NoSquare
       THEN [st EXCEPT !.returned = Append(@, ret)]
       ELSE [squares |-> add_square(st.squares, ret.square),
             mask |-> IF ret.has_match /\ ret.matched_idx # 0
                      THEN [st.mask EXCEPT ![1] = 1]
                      ELSE st.mask,
             returned |-> Append(st.returned, ret)]
MatchIteration(st, values, peak, true_tracks, config) ==
    LET ret == extract_and_classify_square(values, peak, true_tracks, st.mask, config)
    IN IF ret.square = NoSquare
       THEN [st EXCEPT !.returned = Append(@, ret)]
       ELSE [squares |-> add_square(st.squares, ret.square),
             mask |-> IF ret.has_match /\ ret.matched_idx # 0
                      THEN [st.mask EXCEPT ![ret.matched_idx] = 1]
                      ELSE st.mask,
             returned |-> Append(st.returned, ret)]

\* lines 55-59: the locals before the loop
MatchStart(true_tracks) ==
    [squares |-> EmptyCollection, mask |-> [i \in 1..Len(true_tracks) |-> 0],
     returned |-> <<>>]

\* the whole call: the loop folded over the peak list
RECURSIVE MatchLoop(_, _, _, _, _, _)
MatchLoop(st, values, peaks, k, true_tracks, config) ==
    IF k > Len(peaks) THEN st
    ELSE MatchLoop(MatchIteration(st, values, peaks[k], true_tracks, config),
                   values, peaks, k + 1, true_tracks, config)

match_and_extract_squares(values, peaks, true_tracks, config) ==
    MatchLoop(MatchStart(true_tracks), values, peaks, 1, true_tracks, config)

---------------------------------------------------------------------------
(* services/peak_detector.py, peak_detection.py *)

\* config.py: MIN_DISTANCE, THRESHOLD_ABS, SIZE, TOLERANCE, NBIN_PHI, NBIN_QPT
\* (whole units)
MIN_DISTANCE == 2
THRESHOLD_ABS == 5
SIZE == 16
TOLERANCE == 6
NBIN_PHI == 7000
NBIN_QPT == 216

MaxOf(S) == CHOOSE m \in S : \A v \in S : v <= m

\* the index pairs of an nrows x ncols boolean array in the order np.where
\* lists them: row by row, each row from its first column (offset: 0 or 1 based)
RowMajor(nrows, ncols, first) ==
    [k \in 1..(nrows * ncols) |->
        <<first + ((k - 1) \div ncols), first + ((k - 1) % ncols)>>]

\* lines 94-97: an even window size is made odd
OddWindowUnchanged(window_size) == window_size
OddWindow(window_size) ==
    IF window_size % 2 = 0 THEN window_size + 1 ELSE window_size

\* sliding_window_view raises ValueError when the window is larger than the array
WindowFits(m, window_size) ==
    OddWindow(window_size) <= m.shape[1] /\ OddWindow(window_size) <= m.shape[2]

\* np.max(windows_2d, axis=(2, 3)) at window (i, j)
window_maxima(m, ws, i, j) ==
    MaxOf({m.at[i + a][j + b] : a \in 0..(ws - 1), b \in 0..(ws - 1)})

\* lines 99-119: the candidates.  is_peak is indexed by the window, whose
\* centre is the cell (i + half_window, j + half_window).
IsPeakWindowStrict(m, ws, min_height, w) ==
    LET half_window == ws \div 2
        center_value == m.at[w[1] + half_window][w[2] + half_window]
    IN center_value > min_height /\ center_value = window_maxima(m, ws, w[1], w[2])
IsPeakWindow(m, ws, min_height, w) ==
    LET half_window == ws \div 2
        center_value == m.at[w[1] + half_window][w[2] + half_window]
    IN center_value >= min_height /\ center_value = window_maxima(m, ws, w[1], w[2])

CandidatesColumnMajor(m, min_height, window_size) ==
    LET ws == OddWindow(window_size)
        half_window == ws \div 2
        nrows == m.shape[1] - ws + 1
        ncols == m.shape[2] - ws + 1
        windows == [k \in 1..(nrows * ncols) |-> <<(k - 1) % nrows, (k - 1) \div nrows>>]
        peak_windows == SelectSeq(windows, LAMBDA w : IsPeakWindow(m, ws, min_height, w))
    IN [k \in 1..Len(peak_windows) |->
           <<peak_windows[k][1] + half_window, peak_windows[k][2] + half_window>>]
Candidates(m, min_height, window_size) ==
    LET ws == OddWindow(window_size)
        half_window == ws \div 2
        windows == RowMajor(m.shape[1] - ws + 1, m.shape[2] - ws + 1, 0)
        peak_windows == SelectSeq(windows, LAMBDA w : IsPeakWindow(m, ws, min_height, w))
    IN [k \in 1..Len(peak_windows) |->
           <<peak_windows[k][1] + half_window, peak_windows[k][2] + half_window>>]

\* cdist: the Euclidean distance of two coordinates, kept as its square
cdist_sq(a, b) == (a[1] - b[1]) * (a[1] - b[1]) + (a[2] - b[2]) * (a[2] - b[2])

\* lines 127-130: np.where((distances > 0) & (distances <= min_distance))
ClosePairsUpTo(coords, min_distance) ==
    SelectSeq(RowMajor(Len(coords), Len(coords), 1),
               LAMBDA p : /\ cdist_sq(coords[p[1]], coords[p[2]]) > 0
                          /\ cdist_sq(coords[p[1]], coords[p[2]])
                                 < min_distance * min_distance)
ClosePairs(coords, min_distance) ==
    SelectSeq(RowMajor(Len(coords), Len(coords), 1),
               LAMBDA p : /\ cdist_sq(coords[p[1]], coords[p[2]]) > 0
                          /\ cdist_sq(coords[p[1]], coords[p[2]])
                                 <= min_distance * min_distance)

\* lines 135-140, one iteration of the merge loop: the index it removes, 0 for none
MergeRemovesEarlierOnTie(m, coords, keep, pair) ==
    LET i == pair[1]
        j == pair[2]
    IN IF i < j /\ i \in keep /\ j \in keep
       THEN IF m.at[coords[i][1]][coords[i][2]] > m.at[coords[j][1]][coords[j][2]]
            THEN j ELSE i
       ELSE 0
MergeRemoves(m, coords, keep, pair) ==
    LET i == pair[1]
        j == pair[2]
    IN IF i < j /\ i \in keep /\ j \in keep
       THEN IF m.at[coords[i][1]][coords[i][2]] >= m.at[coords[j][1]][coords[j][2]]
            THEN j ELSE i
       ELSE 0

MergeIterationByDiscarded(m, coords, keep, pair) ==
    keep \ {MergeRemoves(m, coords, keep \cup {pair[1]}, pair)}
MergeIteration(m, coords, keep, pair) ==
    keep \ {MergeRemoves(m, coords, keep, pair)}

RECURSIVE MergeLoop(_, _, _, _, _)
MergeLoop(m, coords, keep, pairs, k) ==
    IF k > Len(pairs) THEN keep
    ELSE MergeLoop(m, coords, MergeIteration(m, coords, keep, pairs[k]), pairs, k + 1)

\* lines 142-146: sorted(peaks_to_keep) indexes the candidate arrays
KeptCoords(coords, keep) ==
    SelectSeq([k \in 1..Len(coords) |-> <<k, coords[k]>>], LAMBDA e : e[1] \in keep)

Project2(s) == [k \in 1..Len(s) |-> s[k][2]]

\* the algorithm both variants share; merge_distance is the distance the merge
\* compares against
MergedPeaks(m, coords, merge_distance) ==
    IF Len(coords) > 0
    THEN Project2(KeptCoords(coords,
                             MergeLoop(m, coords, 1..Len(coords),
                                       ClosePairs(coords, merge_distance), 1)))
    ELSE <<>>

SlidingPeaks(m, min_height, window_size, merge_distance) ==
    IF ~WindowFits(m, window_size)
    THEN [status |-> "ValueError", coords |-> <<>>]
    ELSE [status |-> "ok",
          coords |-> MergedPeaks(m, Candidates(m, min_height, window_size),
                                 merge_distance)]

\* PeakDetectorService._vectorized_sliding_peaks: merges within self._config.min_distance
vectorized_sliding_peaks(m, min_height, window_size, config) ==
    SlidingPeaks(m, min_height, window_size, config.min_distance)

\* peak_detection.vectorized_2d_sliding_peaks: merges within the global MIN_DISTANCE
vectorized_2d_sliding_peaks(m, min_height, window_size) ==
    SlidingPeaks(m, min_height, window_size, MIN_DISTANCE)

\* the distance the merge of a variant compares against
MergeDistance(variant, config) ==
    IF variant = "legacy" THEN MIN_DISTANCE ELSE config.min_distance

---------------------------------------------------------------------------
(* The peak finder called on arbitrary small grids, one merge iteration per step *)

Cells(nrows, ncols) == (0..(nrows - 1)) \X (0..(ncols - 1))

\* the value of a nonzero cell, half units: THRESHOLD_ABS
HotValue == Bins(THRESHOLD_ABS)

\* the sets of at most n cells
RECURSIVE CellSets(_, _)
CellSets(cells, n) ==
    IF n = 0 THEN {{}}
    ELSE CellSets(cells, n - 1) \cup {H \cup {c} : H \in CellSets(cells, n - 1), c \in cells}

\* the sets of three cells of one row
RowTriples(nrows, ncols) ==
    {{<<r, a>>, <<r, b>>, <<r, c>>} :
        r \in 0..(nrows - 1), a \in 0..(ncols - 3), b \in 1..(ncols - 2), c \in 2..(ncols - 1)}

\* the grid that holds v on the cells of H and zero elsewhere
SparseGrid(nrows, ncols, H, v) ==
    Array2D(nrows, ncols, LAMBDA r, c : IF <<r, c>> \in H THEN v ELSE 0)

\* half units: 0, THRESHOLD_ABS and half a unit above it
Thresholds == {0, Bins(THRESHOLD_ABS), Bins(THRESHOLD_ABS) + 1}

\* the service is configured freely (one configuration has a window larger than
\* the grid); peak_detection.py runs with config.py's MIN_DISTANCE and
\* THRESHOLD_ABS (hough_processing.py lines 248-253)
PfConfigs ==
    {<<"service", [threshold_abs |-> t, min_distance |-> d]>> : t \in Thresholds, d \in {1, 2}}
        \cup {<<"service", [threshold_abs |-> 0, min_distance |-> Max(PfRows, PfCols)]>>}
        \cup {<<"legacy", [threshold_abs |-> Bins(THRESHOLD_ABS), min_distance |-> MIN_DISTANCE]>>}

PfIdle ==
    /\ pf_pc = "idle"
    /\ peak_coords = <<>>
    /\ close_pairs = <<>>
    /\ pair_pos = 0
    /\ peaks_to_keep = {}
    /\ removed_by = <<>>
    /\ pf_result = <<>>

PfInit ==
    /\ \E vc \in PfConfigs : pf_variant = vc[1] /\ pf_config = vc[2]
    /\ \E H \in CellSets(Cells(PfRows, PfCols), MaxHot) \cup RowTriples(PfRows, PfCols) :
           matrix = SparseGrid(PfRows, PfCols, H, HotValue)
    /\ PfIdle

\* lines 94-131: up to the start of the merge loop
PfDetect ==
    /\ pf_pc = "idle"
    /\ WindowFits(matrix, 2 * pf_config.min_distance)
    /\ LET coords == Candidates(matrix, pf_config.threshold_abs, 2 * pf_config.min_distance)
       IN /\ peak_coords' = coords
          /\ close_pairs' = IF Len(coords) > 0
                            THEN ClosePairs(coords, MergeDistance(pf_variant, pf_config))
                            ELSE <<>>
          /\ peaks_to_keep' = 1..Len(coords)
          /\ removed_by' = [k \in 1..Len(coords) |-> 0]
    /\ pair_pos' = 0
    /\ pf_pc' = "merge"
    /\ UNCHANGED <<pf_variant, pf_config, matrix, pf_result>>
    /\ UNCHANGED not_pf_vars

\* line 100: sliding_window_view raises
PfRaise ==
    /\ pf_pc = "idle"
    /\ ~WindowFits(matrix, 2 * pf_config.min_distance)
    /\ pf_pc' = "raised"
    /\ UNCHANGED <<pf_variant, pf_config, matrix, peak_coords, close_pairs, pair_pos,
                   peaks_to_keep, removed_by, pf_result>>
    /\ UNCHANGED not_pf_vars

\* lines 135-140, one pair
PfMergePair ==
    /\ pf_pc = "merge"
    /\ pair_pos < Len(close_pairs)
    /\ LET pair == close_pairs[pair_pos + 1]
           gone == MergeRemoves(matrix, peak_coords, peaks_to_keep, pair)
       IN /\ peaks_to_keep' = MergeIteration(matrix, peak_coords, peaks_to_keep, pair)
          /\ removed_by' = IF gone = 0 THEN removed_by
                           ELSE [removed_by EXCEPT
                                    ![gone] = IF gone = pair[1] THEN pair[2] ELSE pair[1]]
    /\ pair_pos' = pair_pos + 1
    /\ UNCHANGED <<pf_pc, pf_variant, pf_config, matrix, peak_coords, close_pairs,
                   pf_result>>
    /\ UNCHANGED not_pf_vars

\* lines 142-148
PfReturn ==
    /\ pf_pc = "merge"
    /\ pair_pos = Len(close_pairs)
    /\ pf_result' = Project2(KeptCoords(peak_coords, peaks_to_keep))
    /\ pf_pc' = "returned"
    /\ UNCHANGED <<pf_variant, pf_config, matrix, peak_coords, close_pairs, pair_pos,
                   peaks_to_keep, removed_by>>
    /\ UNCHANGED not_pf_vars

PfNext == PfDetect \/ PfRaise \/ PfMergePair \/ PfReturn

---------------------------------------------------------------------------
(* The matcher called on arbitrary arguments, one loop iteration per step *)

\* a track as the matcher reads it
MatchTrack(curv_bin, phi_bin) == [curv_bin |-> curv_bin, phi_bin |-> phi_bin]

\* the grid whose cell (r, c) holds r*cols + c, and a half more where r + c
\* is even: every cell differs, and astype(int) changes every other one
RampGrid(nrows, ncols) ==
    LET v(r, c) == Bins(r * ncols + c) + ((r + c + 1) % 2)
    IN Array2D(nrows, ncols, v)

\* peak positions: along x one clipped by the low boundary, two whose square
\* fits, one clipped by the high boundary; along y one clipped and one that fits
PeakPositions ==
    {Peak(x, y, 0) : x \in {1, Bins(SmallSize) + 1, Bins(SmallSize) + 2, Bins(GridCols)},
                     y \in {1, Bins(SmallSize) + 1}}

TrackPositions ==
    {MatchTrack(Bins(SmallSize) + 1, Bins(SmallSize)),
     MatchTrack(Bins(SmallSize) + 2, Bins(SmallSize) + 1),
     MatchTrack(1, 1)}

Tolerances == {0, 2, 3}

MatchIdle ==
    /\ match_pc = "idle"
    /\ assignment_mask = <<>>
    /\ square_collection = EmptyCollection
    /\ peak_pos = 0
    /\ returned = <<>>

MatchInit ==
    /\ match_pc = "idle"
    /\ match_config \in [square_size : {SmallSize}, tolerance : Tolerances]
    /\ accumulator_values = RampGrid(GridRows, GridCols)
    /\ reconstructed_peaks \in SeqsUpTo(PeakPositions, MaxPeaks)
    /\ true_tracks_list \in SeqsUpTo(TrackPositions, MaxTracks)
    /\ assignment_mask = <<>>
    /\ square_collection = EmptyCollection
    /\ peak_pos = 0
    /\ returned = <<>>

\* lines 55-59
MatchEnter ==
    /\ match_pc = "idle"
    /\ match_pc' = "loop"
    /\ assignment_mask' = MatchStart(true_tracks_list).mask
    /\ square_collection' = MatchStart(true_tracks_list).squares
    /\ returned' = MatchStart(true_tracks_list).returned
    /\ peak_pos' = 0
    /\ UNCHANGED <<match_config, accumulator_values, reconstructed_peaks,
                   true_tracks_list>>
    /\ UNCHANGED not_match_vars

\* lines 61-71, one peak
MatchPeak ==
    /\ match_pc = "loop"
    /\ peak_pos < Len(reconstructed_peaks)
    /\ LET st == MatchIteration(
                     [squares |-> square_collection, mask |-> assignment_mask,
                      returned |-> returned],
                     accumulator_values, reconstructed_peaks[peak_pos + 1],
                     true_tracks_list, match_config)
       IN /\ square_collection' = st.squares
          /\ assignment_mask' = st.mask
          /\ returned' = st.returned
    /\ peak_pos' = peak_pos + 1
    /\ UNCHANGED <<match_pc, match_config, accumulator_values, reconstructed_peaks,
                   true_tracks_list>>
    /\ UNCHANGED not_match_vars

\* line 73
MatchReturn ==
    /\ match_pc = "loop"
    /\ peak_pos = Len(reconstructed_peaks)
    /\ match_pc' = "returned"
    /\ UNCHANGED <<match_config, accumulator_values, reconstructed_peaks,
                   true_tracks_list, assignment_mask, square_collection, peak_pos,
                   returned>>
    /\ UNCHANGED not_match_vars

MatchNext == MatchEnter \/ MatchPeak \/ MatchReturn

---------------------------------------------------------------------------
(* domain/track.py *)

\* a whole cotangent in the fixed-point unit (1/1024)
Cot(n) == 1024 * n

\* a Track as create_tracks_dict builds it; the fields the pipeline never
\* reads are left out
Track(event_id, phi_bin, curv_bin, vz, pz_over_pt) ==
    [event_id |-> event_id, phi_bin |-> phi_bin, curv_bin |-> curv_bin, vz |-> vz,
     pz_over_pt |-> pz_over_pt, is_reconstructed |-> FALSE]

cotangent(self) == self.pz_over_pt

is_in_vz_range(self, vz_min, vz_max) == vz_min < self.vz /\ self.vz < vz_max

is_in_cot_range_inclusive(self, cot_min, cot_max) ==
    cot_min <= cotangent(self) /\ cotangent(self) <= cot_max
is_in_cot_range(self, cot_min, cot_max) ==
    cot_min < cotangent(self) /\ cotangent(self) < cot_max

mark_reconstructed_toggling(self) == [self EXCEPT !.is_reconstructed = ~@]
mark_reconstructed(self) == [self EXCEPT !.is_reconstructed = TRUE]

\* the Track objects a list of identities refers to
Deref(hp, tracks) == [k \in 1..Len(tracks) |-> hp[tracks[k]]]

\* TrackCollection.filter_by_vz_range / filter_by_cot_range: a new collection
\* over the objects that pass, in their order.  The result names the heap too:
\* the list comprehension allocates no Track.
filter_by_vz_range(hp, tracks, vz_min, vz_max) ==
    [heap |-> hp,
     tracks |-> SelectSeq(tracks, LAMBDA t : is_in_vz_range(hp[t], vz_min, vz_max))]

filter_by_cot_range_copying(hp, tracks, cot_min, cot_max) ==
    LET passed == SelectSeq(tracks, LAMBDA t : is_in_cot_range(hp[t], cot_min, cot_max))
    IN [heap |-> hp \o Deref(hp, passed),
        tracks |-> [k \in 1..Len(passed) |-> Len(hp) + k]]
filter_by_cot_range(hp, tracks, cot_min, cot_max) ==
    [heap |-> hp,
     tracks |-> SelectSeq(tracks, LAMBDA t : is_in_cot_range(hp[t], cot_min, cot_max))]

---------------------------------------------------------------------------
(* strategies/easing_strategy.py, services/track_slicer.py *)

Sign(x) == IF x > 0 THEN 1 ELSE IF x < 0 THEN 0 - 1 ELSE 0

\* ease(x) of a whole x, in 1/1024
LinearEasing_ease(x) == Cot(x)
\* sign * 32 * (x * x / 1024)
InSquareEasing_ease(x) == Sign(x) * 32 * (x * x)
\* 32 * (x * x * x / 32768)
InCubicEasing_ease(x) == x * x * x

\* the strategies this model configures (InSine and InCirc take irrational values)
EasingNames == {"Linear", "InSquare", "InCubic"}

ease(easing_type, x) ==
    CASE easing_type = "Linear" -> LinearEasing_ease(x)
      [] easing_type = "InSquare" -> InSquareEasing_ease(x)
      [] easing_type = "InCubic" -> InCubicEasing_ease(x)

None == "None"

\* TrackSlicerService.get_slice_bounds (lines 39-54)
get_slice_bounds(easing_type, slice_num) ==
    IF slice_num = 0 - 1
    THEN [lo_cot |-> None, hi_cot |-> None]
    ELSE [lo_cot |-> ease(easing_type, (0 - 32) + 2 * Max(slice_num, 0)),
          hi_cot |-> ease(easing_type, (0 - 32) + 2 * Min(slice_num + 1, 32))]

\* lines 91-98: the curvature condition of slice -1
CurvAdmittedFromZero(track, hough_config) ==
    /\ track.curv_bin > Bins(0)
    /\ track.curv_bin < Bins(hough_config.nbin_qpt - hough_config.square_size)
CurvAdmitted(track, hough_config) ==
    /\ track.curv_bin > Bins(0 + hough_config.square_size)
    /\ track.curv_bin < Bins(hough_config.nbin_qpt - hough_config.square_size)

\* TrackSlicerService.filter_tracks_for_slice (lines 56-100)
filter_tracks_for_slice(hp, tracks, slice_num, cfg) ==
    LET vz_min == cfg.processing.vz_range[1]
        vz_max == cfg.processing.vz_range[2]
    IN IF slice_num > 0 - 1
       THEN LET lo_cot == get_slice_bounds(cfg.easing_type, 0).lo_cot
                hi_cot == get_slice_bounds(cfg.easing_type, 32).hi_cot
                by_vz == filter_by_vz_range(hp, tracks, vz_min, vz_max)
            IN filter_by_cot_range(by_vz.heap, by_vz.tracks, lo_cot, hi_cot)
       ELSE LET lo_cot == get_slice_bounds(cfg.easing_type, 10).lo_cot
                hi_cot == get_slice_bounds(cfg.easing_type, 22).hi_cot
                by_vz == filter_by_vz_range(hp, tracks, vz_min, vz_max)
                by_cot == filter_by_cot_range(by_vz.heap, by_vz.tracks, lo_cot, hi_cot)
            IN [heap |-> by_cot.heap,
                tracks |-> SelectSeq(by_cot.tracks,
                                     LAMBDA t : CurvAdmitted(by_cot.heap[t], cfg.hough))]

---------------------------------------------------------------------------
(* services/peak_detector.py: find_peaks *)

\* an uproot TH2: values indexed [x bin][y bin] and the bin edges of both axes
\* (edges in half units)
Histogram(values, xedges, yedges) ==
    [values |-> values, xedges |-> xedges, yedges |-> yedges]

to_numpy(histogram) == <<histogram.values, histogram.xedges, histogram.yedges>>

\* ndarray.T
Transpose(a) ==
    LET v(r, c) == a.at[c][r]
    IN Array2D(a.shape[2], a.shape[1], v)

\* np.nan_to_num(values, nan=0.0, posinf=0.0, neginf=0.0)
nan_to_num(a) ==
    LET v(r, c) == IF IsFinite(a.at[r][c]) THEN a.at[r][c] ELSE 0
    IN Array2D(a.shape[1], a.shape[2], v)

\* 0.5 * (edges[1:] + edges[:-1]), 1-based
BinCenters(edges) == [i \in 1..(Len(edges) - 1) |-> (edges[i + 1] + edges[i]) \div 2]

\* lines 61-72: coordinates (y_idx, x_idx) to peaks
PeaksOfCoords(values, xedges, yedges, coords) ==
    [k \in 1..Len(coords) |->
        Peak(BinCenters(xedges)[coords[k][2] + 1],
             BinCenters(yedges)[coords[k][1] + 1],
             values.at[coords[k][1]][coords[k][2]])]

\* lines 54-72 on the sanitised grid
DetectPeaks(values, xedges, yedges, peak_config) ==
    LET found == vectorized_sliding_peaks(values, peak_config.threshold_abs,
                                          2 * peak_config.min_distance, peak_config)
    IN [status |-> found.status,
        peaks |-> PeaksOfCoords(values, xedges, yedges, found.coords)]

\* PeakDetectorService.find_peaks (lines 36-78) with smooth_sigma = 0, for
\* which gaussian_filter is not called
find_peaks_untransposed(histogram, peak_config) ==
    DetectPeaks(nan_to_num(to_numpy(histogram)[1]),
                to_numpy(histogram)[2], to_numpy(histogram)[3], peak_config)
find_peaks(histogram, peak_config) ==
    DetectPeaks(nan_to_num(Transpose(to_numpy(histogram)[1])),
                to_numpy(histogram)[2], to_numpy(histogram)[3], peak_config)

---------------------------------------------------------------------------
(* services/hough_matcher.py: update_track_reconstruction_status *)

\* lines 174-177, one iteration
UpdateIterationAssigning(st, track, bit) ==
    [heap |-> [st.heap EXCEPT ![track].is_reconstructed = (bit > 0)],
     newly_reconstructed |-> st.newly_reconstructed + (IF bit > 0 THEN 1 ELSE 0)]
UpdateIteration(st, track, bit) ==
    IF bit > 0 /\ ~st.heap[track].is_reconstructed
    THEN [heap |-> [st.heap EXCEPT ![track] = mark_reconstructed(@)],
          newly_reconstructed |-> st.newly_reconstructed + 1]
    ELSE st

RECURSIVE UpdateLoop(_, _, _, _)
UpdateLoop(st, tracks, mask, idx) ==
    IF idx > Len(tracks) THEN st
    ELSE UpdateLoop(UpdateIteration(st, tracks[idx], mask[idx]), tracks, mask, idx + 1)

\* lines 157-179: the heap after the call and the count it returns
update_track_reconstruction_status(hp, tracks, mask) ==
    UpdateLoop([heap |-> hp, newly_reconstructed |-> 0], tracks, mask, 1)

---------------------------------------------------------------------------
(* utils/observers.py: AnalysisStatistics *)

NewStatistics ==
    [total_events |-> 0, processed_histograms |-> 0, true_tracks_total |-> 0,
     true_squares |-> 0, false_squares |-> 0, event_ids |-> <<>>]

InSeq(x, s) == \E k \in 1..Len(s) : s[k] = x

add_event(st, event_id) ==
    IF ~InSeq(event_id, st.event_ids)
    THEN [st EXCEPT !.event_ids = Append(@, event_id), !.total_events = @ + 1]
    ELSE st

add_true_tracks_assigning(st, count) == [st EXCEPT !.true_tracks_total = count]
add_true_tracks(st, count) == [st EXCEPT !.true_tracks_total = @ + count]

add_squares(st, true_count, false_count) ==
    [st EXCEPT !.true_squares = @ + true_count, !.false_squares = @ + false_count]

increment_histograms(st) == [st EXCEPT !.processed_histograms = @ + 1]

---------------------------------------------------------------------------
(* facades/analysis_facade.py *)

\* HoughHistogram (repositories/hough_repository.py)
HoughHistogram(histogram, event_id, slice_num) ==
    [histogram |-> histogram, event_id |-> event_id, slice_num |-> slice_num]

\* lines 155-158 and 164: the callbacks
OnEventDiscovered(event_id) == [cb |-> "on_event_discovered", event_id |-> event_id]
OnSliceStart(event_id, slice_num) ==
    [cb |-> "on_slice_start", event_id |-> event_id, slice_num |-> slice_num]
OnSliceComplete(event_id, slice_num, n_peaks, n_tracks, matched_count) ==
    [cb |-> "on_slice_complete", event_id |-> event_id, slice_num |-> slice_num,
     n_peaks |-> n_peaks, n_tracks |-> n_tracks, matched_count |-> matched_count]

\* lines 155-158
TrackEvent(st, log, event_id) ==
    IF ~InSeq(event_id, st.event_ids)
    THEN [stats |-> add_event(st, event_id),
          log |-> Append(log, OnEventDiscovered(event_id))]
    ELSE [stats |-> st, log |-> log]

\* lines 201-203: the squares of the pass go to the facade's collection, the
\* true positives first
RECURSIVE AddSquares(_, _, _)
AddSquares(coll, squares, k) ==
    IF k > Len(squares) THEN coll
    ELSE AddSquares(add_square(coll, squares[k]), squares, k + 1)

\* lines 195-199: the locals of a pass that ran to its end
PassResult(filtered_tracks, found, matched, updated) ==
    [raised |-> FALSE, filtered_tracks |-> filtered_tracks.tracks,
     peaks |-> found.peaks, squares |-> matched.squares,
     assignment_mask |-> matched.mask,
     matched_count |-> updated.newly_reconstructed, heap |-> updated.heap]

\* lines 188-199
PassOnMatch(filtered_tracks, found, matched) ==
    PassResult(filtered_tracks, found, matched,
               update_track_reconstruction_status(
                   filtered_tracks.heap, filtered_tracks.tracks, matched.mask))

\* lines 184-199; find_peaks may have raised
PassOnPeaks(cfg, filtered_tracks, found, values) ==
    IF found.status = "ValueError"
    THEN [raised |-> TRUE, filtered_tracks |-> filtered_tracks.tracks,
          peaks |-> <<>>, squares |-> EmptyCollection, assignment_mask |-> <<>>,
          matched_count |-> 0, heap |-> filtered_tracks.heap]
    ELSE PassOnMatch(filtered_tracks, found,
                     match_and_extract_squares(
                         values, found.peaks,
                         Deref(filtered_tracks.heap, filtered_tracks.tracks), cfg.hough))

\* lines 181-199
PassOnFiltered(cfg, filtered_tracks, hough_hist) ==
    PassOnPeaks(cfg, filtered_tracks,
                find_peaks(hough_hist.histogram, cfg.peak_detection),
                Transpose(to_numpy(hough_hist.histogram)[1]))

\* lines 170-199: the locals of a pass over a histogram whose slice is
\* processed and whose event has tracks
SlicePass(cfg, hp, tdict, hough_hist) ==
    PassOnFiltered(cfg,
                   filter_tracks_for_slice(hp, tdict[hough_hist.event_id],
                                           hough_hist.slice_num, cfg),
                   hough_hist)

LastPass(outcome, pass) ==
    [outcome |-> outcome, filtered_tracks |-> pass.filtered_tracks, peaks |-> pass.peaks,
     squares |-> pass.squares, assignment_mask |-> pass.assignment_mask,
     matched_count |-> pass.matched_count]

NoPass ==
    [raised |-> FALSE, filtered_tracks |-> <<>>, peaks |-> <<>>,
     squares |-> EmptyCollection, assignment_mask |-> <<>>, matched_count |-> 0]

\* the histogram the loop of _process_single_file hands over next
HasNext == facade_pc = "running" /\ hist_pos < Len(histograms)
NextHistogram == histograms[hist_pos + 1]

\* lines 152-162 (and line 138): the slice is not in slice_list
ProcessSkippedSlice ==
    /\ HasNext
    /\ ~InSeq(NextHistogram.slice_num, facade_config.processing.slice_list)
    /\ LET tracked == TrackEvent(stats, observer_log, NextHistogram.event_id)
       IN /\ stats' = increment_histograms(tracked.stats)
          /\ observer_log' = tracked.log
    /\ last_pass' = LastPass("skipped", NoPass)
    /\ hist_pos' = hist_pos + 1
    /\ UNCHANGED <<facade_pc, facade_config, cast_of_nonfinite, heap, tracks_dict, histograms,
                   facade_square_collection>>
    /\ UNCHANGED not_facade_vars

\* lines 152-168 (and line 138): the event has no entry in the tracks dictionary
ProcessEventWithoutTracks ==
    /\ HasNext
    /\ InSeq(NextHistogram.slice_num, facade_config.processing.slice_list)
    /\ NextHistogram.event_id \notin DOMAIN tracks_dict
    /\ LET tracked == TrackEvent(stats, observer_log, NextHistogram.event_id)
       IN /\ stats' = increment_histograms(tracked.stats)
          /\ observer_log' = Append(tracked.log,
                                    OnSliceStart(NextHistogram.event_id,
                                                 NextHistogram.slice_num))
    /\ last_pass' = LastPass("no_tracks", NoPass)
    /\ hist_pos' = hist_pos + 1
    /\ UNCHANGED <<facade_pc, facade_config, cast_of_nonfinite, heap, tracks_dict, histograms,
                   facade_square_collection>>
    /\ UNCHANGED not_facade_vars

\* lines 179-182: what the call leaves behind when find_peaks raises
RaiseIn(pass, tracked, hough_hist) ==
    /\ pass.raised
    /\ stats' = add_true_tracks(tracked.stats, Len(pass.filtered_tracks))
    /\ observer_log' = Append(tracked.log,
                              OnSliceStart(hough_hist.event_id, hough_hist.slice_num))
    /\ last_pass' = LastPass("raised", pass)

\* lines 152-182: find_peaks raises (the window does not fit the grid) and the
\* exception leaves the facade
ProcessRaises ==
    /\ HasNext
    /\ InSeq(NextHistogram.slice_num, facade_config.processing.slice_list)
    /\ NextHistogram.event_id \in DOMAIN tracks_dict
    /\ RaiseIn(SlicePass(facade_config, heap, tracks_dict, NextHistogram),
               TrackEvent(stats, observer_log, NextHistogram.event_id),
               NextHistogram)
    /\ facade_pc' = "raised"
    /\ UNCHANGED <<facade_config, cast_of_nonfinite, heap, tracks_dict, histograms, hist_pos,
                   facade_square_collection>>
    /\ UNCHANGED not_facade_vars

\* lines 179-226 (and line 138): what a complete pass leaves behind
CompleteIn(pass, tracked, hough_hist) ==
    /\ ~pass.raised
    /\ heap' = pass.heap
    /\ facade_square_collection' =
           AddSquares(facade_square_collection,
                      pass.squares.true_positives \o pass.squares.false_positives, 1)
    /\ stats' = increment_histograms(
                    add_squares(
                        add_true_tracks(tracked.stats, Len(pass.filtered_tracks)),
                        true_positive_count(pass.squares),
                        false_positive_count(pass.squares)))
    /\ observer_log' =
           tracked.log
               \o <<OnSliceStart(hough_hist.event_id, hough_hist.slice_num),
                    OnSliceComplete(hough_hist.event_id, hough_hist.slice_num,
                                    Len(pass.peaks), Len(pass.filtered_tracks),
                                    pass.matched_count)>>
    /\ last_pass' = LastPass("complete", pass)

\* lines 152-230 (and line 138): the complete pass
ProcessSlice ==
    /\ HasNext
    /\ InSeq(NextHistogram.slice_num, facade_config.processing.slice_list)
    /\ NextHistogram.event_id \in DOMAIN tracks_dict
    /\ CompleteIn(SlicePass(facade_config, heap, tracks_dict, NextHistogram),
                  TrackEvent(stats, observer_log, NextHistogram.event_id),
                  NextHistogram)
    /\ hist_pos' = hist_pos + 1
    /\ UNCHANGED <<facade_pc, facade_config, cast_of_nonfinite, tracks_dict, histograms>>
    /\ UNCHANGED not_facade_vars

FacadeNext ==
    ProcessSkippedSlice \/ ProcessEventWithoutTracks \/ ProcessRaises \/ ProcessSlice

\* the facade after construction and create_tracks_dict
FacadeStart ==
    /\ facade_pc = "running"
    /\ hist_pos = 0
    /\ stats = NewStatistics
    /\ facade_square_collection = EmptyCollection
    /\ observer_log = <<>>
    /\ last_pass = LastPass("none", NoPass)

---------------------------------------------------------------------------
(* The facade on small histograms *)

\* unit-wide bins whose first edge is origin (half units)
UnitEdges(n, origin) == [i \in 1..(n + 1) |-> origin + Bins(i - 1)]

\* an nx x ny histogram that holds v on the bins of H and zero elsewhere
SparseHistogram(nx, ny, H, v, origin) ==
    Histogram(SparseGrid(nx, ny, H, v), UnitEdges(nx, origin), UnitEdges(ny, origin))

\* the small histograms have one column more than the small grids
SmallCols == GridCols + 1

\* one peak at row 1, column 1; two peaks at row 1, columns 1 and 3; a grid
\* smaller than the window
OnePeakHistogram == SparseHistogram(SmallCols, GridRows, {<<1, 1>>}, Bins(6), 0)
TwoPeakHistogram == SparseHistogram(SmallCols, GridRows, {<<1, 1>>, <<3, 1>>}, Bins(6), 0)
TinyHistogram == SparseHistogram(2, 2, {}, 0, 0)

SmallHistograms ==
    {HoughHistogram(TwoPeakHistogram, 1, 0 - 1),
     HoughHistogram(OnePeakHistogram, 1, 0),
     HoughHistogram(TwoPeakHistogram, 1, 0),
     HoughHistogram(OnePeakHistogram, 1, 7),
     HoughHistogram(OnePeakHistogram, 3, 0 - 1),
     HoughHistogram(TinyHistogram, 1, 0 - 1),
     HoughHistogram(OnePeakHistogram, 2, 0 - 1)}

\* tracks of event 1: at the first peak and admitted by every slice; at the
\* second peak and, under InSquare and InCubic, outside the cotangent band of
\* slice -1; at the first peak and outside the vz range
SmallTracks ==
    {Track(1, 3, 3, 0, Cot(0)),
     Track(1, 3, 7, 0, Cot(7)),
     Track(1, 3, 3, 200, Cot(0))}

SmallConfig(tolerance, slice_list, easing_type) ==
    [hough |-> [nbin_phi |-> GridRows, nbin_qpt |-> SmallCols,
                square_size |-> SmallSize, tolerance |-> tolerance],
     peak_detection |-> [threshold_abs |-> Bins(THRESHOLD_ABS), min_distance |-> 1,
                         smooth_sigma |-> 0],
     processing |-> [slice_list |-> slice_list, vz_range |-> <<0 - 200, 200>>],
     easing_type |-> easing_type]

SmallConfigs ==
    {SmallConfig(Bins(1), <<0 - 1>>, "InSquare"),
     SmallConfig(Bins(1), <<0 - 1, 0>>, "InSquare"),
     SmallConfig(0, <<0 - 1, 0>>, "Linear"),
     SmallConfig(Bins(1), <<0 - 1, 0>>, "InCubic")}

FacadeInit ==
    /\ facade_config \in SmallConfigs
    /\ \E first \in SeqsUpTo(SmallTracks, MaxTracks) :
           /\ heap = first \o <<Track(2, 3, 3, 0, Cot(0))>>
           /\ tracks_dict = (1 :> [k \in 1..Len(first) |-> k]) @@ (2 :> <<Len(first) + 1>>)
    /\ histograms \in SeqsUpTo(SmallHistograms, MaxHistograms)
    /\ CastUnobserved
    /\ FacadeStart

---------------------------------------------------------------------------
(* The facade on the 100 x 100 histogram of the end-to-end scenarios *)

\* zero but for 12 at x bin 60, y bin 50: row 50, column 60 of the transposed grid
ScenarioHistogram(origin) ==
    SparseHistogram(100, 100, {<<60, 50>>}, Bins(12), origin)

ScenarioConfig(tolerance, min_distance) ==
    [hough |-> [nbin_phi |-> NBIN_PHI, nbin_qpt |-> NBIN_QPT, square_size |-> SIZE,
                tolerance |-> tolerance],
     peak_detection |-> [threshold_abs |-> Bins(THRESHOLD_ABS),
                         min_distance |-> min_distance, smooth_sigma |-> 0],
     processing |-> [slice_list |-> <<0 - 1, 0>>, vz_range |-> <<0 - 200, 200>>],
     easing_type |-> "InSquare"]

ScenarioInit ==
    /\ \E tolerance \in {Bins(1), Bins(TOLERANCE)}, min_distance \in {MIN_DISTANCE, 50} :
           facade_config = ScenarioConfig(tolerance, min_distance)
    /\ \E curv_bin \in {Bins(62), Bins(67)}, vz \in {0, 200}, cot \in {Cot(0), Cot(7)} :
           heap = <<Track(1, Bins(50), curv_bin, vz, cot)>>
    /\ tracks_dict = (1 :> <<1>>)
    /\ \E origin \in {0, 0 - 1}, event_id \in {1, 3}, slice_num \in {0 - 1, 0, 7} :
           histograms = <<HoughHistogram(ScenarioHistogram(origin), event_id, slice_num)>>
    /\ CastUnobserved
    /\ FacadeStart

---------------------------------------------------------------------------
(* The facade on histograms with two bins that are not zero *)

\* y bins and x bins of these histograms
OrderRows == 4
OrderCols == 5

\* an nx x ny histogram that holds va on bin a, vb on bin b and zero elsewhere
TwoBinHistogram(nx, ny, a, va, b, vb) ==
    Histogram(Array2D(nx, ny, LAMBDA x, y : IF <<x, y>> = a THEN va
                                            ELSE IF <<x, y>> = b THEN vb ELSE 0),
              UnitEdges(nx, 0), UnitEdges(ny, 0))

\* the heights of the two bins: equal, the first higher, the second higher
OrderHeights == {<<Bins(6), Bins(6)>>, <<Bins(9), Bins(6)>>, <<Bins(6), Bins(9)>>}

OrderHistograms ==
    {TwoBinHistogram(OrderCols, OrderRows, a, v[1], b, v[2]) :
        a \in Cells(OrderCols, OrderRows), b \in Cells(OrderCols, OrderRows),
        v \in OrderHeights}
        \cup {TinyHistogram}

OrderConfig(tolerance) ==
    [hough |-> [nbin_phi |-> OrderRows, nbin_qpt |-> OrderCols,
                square_size |-> SmallSize, tolerance |-> tolerance],
     peak_detection |-> [threshold_abs |-> Bins(THRESHOLD_ABS), min_distance |-> 1,
                         smooth_sigma |-> 0],
     processing |-> [slice_list |-> <<0 - 1>>, vz_range |-> <<0 - 200, 200>>],
     easing_type |-> "InSquare"]

\* one track of event 1: between the bins (x 3, y 1) and (x 1, y 2), or on the
\* first of them
OrderInit ==
    /\ \E tolerance \in {Bins(1), Bins(2)} : facade_config = OrderConfig(tolerance)
    /\ \E pos \in {<<4, 5>>, <<3, 7>>} : heap = <<Track(1, pos[1], pos[2], 0, Cot(0))>>
    /\ tracks_dict = (1 :> <<1>>)
    /\ \E h \in OrderHistograms, event_id \in {1, 3}, slice_num \in {0 - 1, 5} :
           histograms = <<HoughHistogram(h, event_id, slice_num)>>
    /\ CastUnobserved
    /\ FacadeStart

---------------------------------------------------------------------------
(* The facade on histograms with a bin that is not finite *)

\* the cells at least d from every border of an nx x ny grid
Interior(nx, ny, d) ==
    {c \in Cells(nx, ny) : d <= c[1] /\ c[1] < nx - d /\ d <= c[2] /\ c[2] < ny - d}

\* one interior bin holds 6 and one bin holds nan, inf or -inf
NonFiniteHistograms ==
    {TwoBinHistogram(OrderCols, OrderRows, a, Bins(6), b, v) :
        a \in Interior(OrderCols, OrderRows, 1), b \in Cells(OrderCols, OrderRows),
        v \in NonFinite}
        \cup {TinyHistogram}

NonFiniteInit ==
    /\ facade_config = OrderConfig(Bins(1))
    /\ heap = <<Track(1, 3, 7, 0, Cot(0))>>
    /\ tracks_dict = (1 :> <<1>>)
    /\ \E h \in NonFiniteHistograms, event_id \in {1, 3}, slice_num \in {0 - 1, 5} :
           histograms = <<HoughHistogram(h, event_id, slice_num)>>
    /\ cast_of_nonfinite \in CastOutcomes
    /\ FacadeStart

---------------------------------------------------------------------------
(* slicer.py, peak_detection.py, hough_processing.py: the program of main.py *)

\* config.py: SLICE_LIST
SLICE_LIST == <<0 - 1>>

\* HoughSlicer.easing (slicer.py lines 37-63) for the names with rational
\* values: a name that is none of the four eased ones is Linear
HoughSlicer_easing(easing_type, x) ==
    CASE easing_type = "InSquare" -> Sign(x) * 32 * (x * x)
      [] easing_type = "InCubic" -> x * x * x
      [] easing_type \notin {"InSine", "InSquare", "InCubic", "InCirc"} -> Cot(x)

\* HoughSlicer.__call__ (slicer.py lines 65-86)
HoughSlicer_call(easing_type, slice_num) ==
    IF slice_num = 0 - 1
    THEN [lo_cot |-> None, hi_cot |-> None]
    ELSE [lo_cot |-> HoughSlicer_easing(easing_type, (0 - 32) + 2 * Max(slice_num, 0)),
          hi_cot |-> HoughSlicer_easing(easing_type,
                                        (0 - 32) + 2 * Min(slice_num + 1, 32))]

\* lines 136-141 of peak_detection.py: coordinates (y_idx, x_idx) to tuples
\* (x, y, height)
TuplesOfCoords(values, xedges, yedges, coords) ==
    [k \in 1..Len(coords) |->
        <<BinCenters(xedges)[coords[k][2] + 1],
          BinCenters(yedges)[coords[k][1] + 1],
          values.at[coords[k][1]][coords[k][2]]>>]

\* lines 132-146 of peak_detection.py on the sanitised grid
LocalMaxima(values, xedges, yedges, threshold_abs, min_distance) ==
    LET found == vectorized_2d_sliding_peaks(values, threshold_abs, 2 * min_distance)
    IN [status |-> found.status,
        peaks |-> TuplesOfCoords(values, xedges, yedges, found.coords),
        values |-> values]

\* find_local_maxima_2d (peak_detection.py lines 100-146) with smooth_sigma =
\* SMOOTH_SIGMA = 0, for which gaussian_filter is not called
find_local_maxima_2d(hist_obj, threshold_abs, min_distance) ==
    LocalMaxima(nan_to_num(Transpose(to_numpy(hist_obj)[1])),
                to_numpy(hist_obj)[2], to_numpy(hist_obj)[3],
                threshold_abs, min_distance)

\* a row of a truetracks DataFrame (track_analysis.py lines 61-75); the
\* columns the program never reads are left out
TrueTrackRow(phi_bin, curv_bin, vz, pz_over_pt) ==
    [phi_bin |-> phi_bin, curv_bin |-> curv_bin, vz |-> vz,
     pz_over_pt |-> pz_over_pt, reco |-> 0]

\* match_and_write lines 156-169: the admission mask over the rows
AdmissionMask(true_peaks, slice_num) ==
    [i \in 1..Len(true_peaks) |->
        IF slice_num > 0 - 1
        THEN /\ true_peaks[i].vz < 200 /\ 0 - true_peaks[i].vz < 200
             /\ HoughSlicer_call("InSquare", 0).lo_cot < true_peaks[i].pz_over_pt
             /\ true_peaks[i].pz_over_pt < HoughSlicer_call("InSquare", 32).hi_cot
        ELSE /\ true_peaks[i].vz < 200 /\ 0 - true_peaks[i].vz < 200
             /\ HoughSlicer_call("InSquare", 10).lo_cot < true_peaks[i].pz_over_pt
             /\ true_peaks[i].pz_over_pt < HoughSlicer_call("InSquare", 22).hi_cot
             /\ true_peaks[i].curv_bin > Bins(0 + SIZE)
             /\ true_peaks[i].curv_bin < Bins(NBIN_QPT - SIZE)]

\* true_peaks[mask]
MaskedRows(true_peaks, mask) ==
    Deref(true_peaks, SelectSeq([i \in 1..Len(true_peaks) |-> i], LAMBDA i : mask[i]))

\* get_hough_squares lines 87-96: the rows a peak marks
MarkedBy(peak, true_peaks, true_peaks_mask) ==
    {i \in 1..Len(true_peaks) :
        /\ (peak[1] - true_peaks[i].curv_bin) * (peak[1] - true_peaks[i].curv_bin)
             + (peak[2] - true_peaks[i].phi_bin) * (peak[2] - true_peaks[i].phi_bin)
               <= Bins(TOLERANCE) * Bins(TOLERANCE)
        /\ true_peaks_mask[i] = 0}

\* get_hough_squares lines 67-103, one peak
SquaresIteration(st, values, peak, true_peaks) ==
    LET b == SquareBounds(values, Peak(peak[1], peak[2], peak[3]), SIZE)
        marked == MarkedBy(peak, true_peaks, st.true_peaks_mask)
        square_region == Slice2D(values, b.x_start, b.x_end, b.y_start, b.y_end)
        data == Array2D(square_region.shape[1], square_region.shape[2],
                        LAMBDA r, c : astype_int(square_region.at[r][c]))
    IN IF ~(b.x_end > b.x_start /\ b.y_end > b.y_start)
       THEN st
       ELSE [true_peaks_mask |-> [i \in 1..Len(true_peaks) |->
                                     IF i \in marked THEN 1 ELSE st.true_peaks_mask[i]],
             true_squares |-> IF square_region.shape = <<2 * SIZE, 2 * SIZE>>
                                     /\ marked # {}
                              THEN Append(st.true_squares, data)
                              ELSE st.true_squares,
             false_squares |-> IF square_region.shape = <<2 * SIZE, 2 * SIZE>>
                                      /\ marked = {}
                               THEN Append(st.false_squares, data)
                               ELSE st.false_squares]

RECURSIVE SquaresLoop(_, _, _, _, _)
SquaresLoop(st, values, peaks, k, true_peaks) ==
    IF k > Len(peaks) THEN st
    ELSE SquaresLoop(SquaresIteration(st, values, peaks[k], true_peaks),
                     values, peaks, k + 1, true_peaks)

\* the number of admitted rows among the first i rows
AdmittedUpTo(mask, i) == Cardinality({j \in 1..i : mask[j]})

\* get_hough_squares lines 105-113: the mask over all rows of the event
ResultMask(mask, true_peaks_mask) ==
    [i \in 1..Len(mask) |->
        IF mask[i] /\ true_peaks_mask[AdmittedUpTo(mask, i)] = 1 THEN 1 ELSE 0]

\* get_hough_squares (lines 35-115)
get_hough_squares(values, peaks, true_peaks, mask, squares, nonsquares) ==
    SquaresLoop([true_peaks_mask |-> [i \in 1..Len(true_peaks) |-> 0],
                 true_squares |-> squares, false_squares |-> nonsquares],
                values, peaks, 1, true_peaks)

\* match_and_write line 151 and the indexing of lines 159-169: np.squeeze
\* leaves no second axis to a frame of one row, and an empty frame has no
\* columns
RowsIndexable(rows) == Len(rows) >= 2

\* match_and_write lines 186-192: the 'reco' column after the call
OrIntoReco(rows, result_mask) ==
    IF Len(result_mask) = Len(rows)
    THEN [i \in 1..Len(rows) |->
             [rows[i] EXCEPT !.reco = IF result_mask[i] = 1 \/ @ = 1 THEN 1 ELSE 0]]
    ELSE rows

\* match_and_write lines 171-196 once the mask is known
WriteMatched(rows, mask, got) ==
    [mask |-> mask, true_peaks_mask |-> got.true_peaks_mask,
     result_mask |-> ResultMask(mask, got.true_peaks_mask),
     true_squares |-> got.true_squares, false_squares |-> got.false_squares,
     rows |-> OrIntoReco(rows, ResultMask(mask, got.true_peaks_mask))]

MatchMasked(values, peaks, rows, mask, squares, nonsquares) ==
    WriteMatched(rows, mask,
                 get_hough_squares(values, peaks, MaskedRows(rows, mask), mask,
                                   squares, nonsquares))

\* match_and_write (lines 118-196) for an event whose rows can be indexed
match_and_write(values, peaks, slice_num, rows, squares, nonsquares) ==
    MatchMasked(values, peaks, rows, AdmissionMask(rows, slice_num), squares, nonsquares)

NoLegacyPass ==
    [event |-> 0, mask |-> <<>>, true_peaks_mask |-> <<>>, result_mask |-> <<>>]

LegacyPass(event, written) ==
    [event |-> event, mask |-> written.mask, true_peaks_mask |-> written.true_peaks_mask,
     result_mask |-> written.result_mask]

HasNextKey == legacy_pc = "running" /\ ikey < Len(legacy_keys)
NextKey == legacy_keys[ikey + 1]

\* process_root_file lines 239-241
EventSeen(events, event) == IF InSeq(event, events) THEN events ELSE Append(events, event)

\* process_root_file lines 227-265: the slice is not in SLICE_LIST
LegacySkipsSlice ==
    /\ HasNextKey
    /\ ~InSeq(NextKey.slice_num, SLICE_LIST)
    /\ event_list' = EventSeen(event_list, NextKey.event_id)
    /\ ikey' = ikey + 1
    /\ legacy_pass' = NoLegacyPass
    /\ UNCHANGED <<legacy_pc, truetracks, legacy_keys, true_squares, false_squares,
                   n_truetracks>>
    /\ UNCHANGED not_legacy_vars

\* the call raises: sliding_window_view (ValueError), truetracks[event]
\* (KeyError) or the indexing of the squeezed rows (IndexError)
LegacyRaisesOn(obj) ==
    IF find_local_maxima_2d(obj.histogram, Bins(THRESHOLD_ABS), MIN_DISTANCE).status
           = "ValueError"
    THEN TRUE
    ELSE IF obj.event_id \notin DOMAIN truetracks
    THEN TRUE
    ELSE ~RowsIndexable(truetracks[obj.event_id])

\* process_root_file lines 227-256: the exception leaves the program
LegacyRaises ==
    /\ HasNextKey
    /\ InSeq(NextKey.slice_num, SLICE_LIST)
    /\ LegacyRaisesOn(NextKey)
    /\ event_list' = EventSeen(event_list, NextKey.event_id)
    /\ legacy_pc' = "raised"
    /\ legacy_pass' = NoLegacyPass
    /\ UNCHANGED <<truetracks, legacy_keys, ikey, true_squares, false_squares,
                   n_truetracks>>
    /\ UNCHANGED not_legacy_vars

\* what a complete match_and_write call leaves behind
LegacyWrites(event, written) ==
    /\ truetracks' = [truetracks EXCEPT ![event] = written.rows]
    /\ true_squares' = written.true_squares
    /\ false_squares' = written.false_squares
    /\ n_truetracks' = n_truetracks + Cardinality({i \in 1..Len(written.mask) :
                                                        written.mask[i]})
    /\ legacy_pass' = LegacyPass(event, written)

\* process_root_file lines 227-265 with match_and_write
LegacyMatchAndWrite ==
    /\ HasNextKey
    /\ InSeq(NextKey.slice_num, SLICE_LIST)
    /\ ~LegacyRaisesOn(NextKey)
    /\ LegacyWrites(
           NextKey.event_id,
           match_and_write(
               Transpose(to_numpy(NextKey.histogram)[1]),
               find_local_maxima_2d(NextKey.histogram, Bins(THRESHOLD_ABS),
                                    MIN_DISTANCE).peaks,
               NextKey.slice_num, truetracks[NextKey.event_id],
               true_squares, false_squares))
    /\ event_list' = EventSeen(event_list, NextKey.event_id)
    /\ ikey' = ikey + 1
    /\ UNCHANGED <<legacy_pc, legacy_keys>>
    /\ UNCHANGED not_legacy_vars

LegacyNext == LegacySkipsSlice \/ LegacyRaises \/ LegacyMatchAndWrite

\* main.py lines 46-65: the program before the first file
LegacyStart ==
    /\ legacy_pc = "running"
    /\ ikey = 0
    /\ event_list = <<>>
    /\ true_squares = <<>>
    /\ false_squares = <<>>
    /\ n_truetracks = 0
    /\ legacy_pass = NoLegacyPass

\* 6 x bins by 5 y bins, the first x edge at 18: one peak at row 2, column 2
\* (x = 20.5, y = 2.5); no peak; a grid smaller than the window
LegacyHistogram(H) ==
    Histogram(SparseGrid(6, 5, H, Bins(6)), UnitEdges(6, Bins(18)), UnitEdges(5, 0))

LegacyKeys ==
    {HoughHistogram(LegacyHistogram({<<2, 2>>}), 1, 0 - 1),
     HoughHistogram(LegacyHistogram({}), 1, 0 - 1),
     HoughHistogram(LegacyHistogram({<<2, 2>>}), 1, 0),
     HoughHistogram(LegacyHistogram({<<2, 2>>}), 3, 0 - 1),
     HoughHistogram(TinyHistogram, 1, 0 - 1)}

\* rows of event 1: admitted and within TOLERANCE of the peak; admitted and
\* farther away; within TOLERANCE and outside the vz range
LegacyRows ==
    {TrueTrackRow(Bins(2), Bins(21), 0, Cot(0)),
     TrueTrackRow(Bins(2), Bins(40), 0, Cot(0)),
     TrueTrackRow(Bins(2), Bins(21), 200, Cot(0))}

LegacyInit ==
    /\ \E rows \in SeqsUpTo(LegacyRows, MaxTracks + 1) : truetracks = (1 :> rows)
    /\ legacy_keys \in SeqsUpTo(LegacyKeys, MaxHistograms)
    /\ LegacyStart

---------------------------------------------------------------------------
(* strategies/easing_strategy.py, slicer.py: the easings in double precision *)

\* longest sequence of calls made on one easing object
MaxCalls == 2

\* the double near / 1024 + off * 2^-60: off is 0 where the fixed-point unit
\* (1/1024) holds the value
Double(near, off) == [near |-> near, off |-> off]

RECURSIVE Log2Floor(_)
Log2Floor(n) == IF n < 2 THEN 0 ELSE 1 + Log2Floor(n \div 2)

\* the distance, in 2^-60, between the doubles next to near / 1024 on the side
\* of off: 2^-52 of the binade, and half of it below a power of two
UlpAt(near, off) ==
    LET n == IF near < 0 THEN 0 - near ELSE near
        e == Log2Floor(n)
        toward_zero == (near > 0 /\ off < 0) \/ (near < 0 /\ off > 0)
    IN IF toward_zero /\ n = 2 ^ e THEN 2 ^ (e - 3) ELSE 2 ^ (e - 2)

\* IEEE 754 round to nearest, ties to even, of near / 1024 + off * 2^-60; a
\* value below 2^-40 is a double as it stands
RoundToDouble(d) ==
    IF d.near = 0 \/ d.off = 0
    THEN d
    ELSE LET ulp == UlpAt(d.near, d.off)
             q == d.off \div ulp
             r == d.off - q * ulp
         IN Double(d.near,
                   ulp * (IF 2 * r < ulp THEN q
                          ELSE IF 2 * r > ulp THEN q + 1
                          ELSE IF q % 2 = 0 THEN q ELSE q + 1))

\* a - b of two doubles
FloatSub(a, b) == RoundToDouble(Double(a.near - b.near, a.off - b.off))

\* k * d for k in {-32, -1, 0, 1, 32}: a power of two, or zero, scales a
\* double without rounding
TimesWhole(k, d) == Double(k * d.near, k * d.off)

\* the whole arguments at which an easing takes a rational value: all of them
\* for Linear, InSquare and InCubic, and -32, 0 and 32 alone for InSine and
\* InCirc
HasRationalValue(easing_type, x) ==
    easing_type \in {"InSine", "InCirc"} => x \in {0 - 32, 0, 32}

\* the arguments drawn for a call of ease: every eighth of the domain
EaseArgs(easing_type) ==
    {x \in {(0 - 32) + 8 * k : k \in 0..8} : HasRationalValue(easing_type, x)}

\* math.cos((x * math.pi) / 64) for x in {-32, 0, 32}.  32 * math.pi / 64 is
\* the double next to pi / 2, whose cosine is 6.123233995736766e-17 (70.6 *
\* 2^-60, held here to 2^-60); math.cos(0.0) is 1.0
math_cos_x_pi_64(x) == IF x = 0 THEN Double(Cot(1), 0) ELSE Double(0, 70)

\* math.sqrt of a perfect square
math_sqrt(n) == Double(Cot(CHOOSE r \in 0..32 : r * r = n), 0)

\* InSineEasing.ease (easing_strategy.py lines 53-56)
InSineEasing_ease_of_real_cos(x) == Double(Cot(Sign(x) * 32 * (IF x = 0 THEN 0 ELSE 1)), 0)
InSineEasing_ease(x) ==
    TimesWhole(Sign(x) * 32, FloatSub(Double(Cot(1), 0), math_cos_x_pi_64(x)))

\* InCircEasing.ease (easing_strategy.py lines 91-94)
InCircEasing_ease(x) ==
    TimesWhole(Sign(x), FloatSub(Double(Cot(32), 0), math_sqrt(1024 - x * x)))

\* EasingStrategyFactory._strategies (easing_strategy.py lines 108-114): the
\* registered names
EasingStrategyFactory_strategies == {"Linear", "InSine", "InSquare", "InCubic", "InCirc"}

\* EasingStrategy.ease of the strategy registered under a name, as a double
EasingStrategy_ease(strategy_name, x) ==
    CASE strategy_name = "InSine" -> InSineEasing_ease(x)
      [] strategy_name = "InCirc" -> InCircEasing_ease(x)
      [] strategy_name = "Linear" -> Double(LinearEasing_ease(x), 0)
      [] strategy_name = "InSquare" -> Double(InSquareEasing_ease(x), 0)
      [] strategy_name = "InCubic" -> Double(InCubicEasing_ease(x), 0)

\* EasingStrategy.name of the strategy registered under a name
\* (easing_strategy.py lines 45-47, 58-60, 71-73, 83-85, 96-98)
EasingStrategy_name(strategy_name) ==
    CASE strategy_name = "Linear" -> "Linear"
      [] strategy_name = "InSine" -> "InSine"
      [] strategy_name = "InSquare" -> "InSquare"
      [] strategy_name = "InCubic" -> "InCirc"
      [] strategy_name = "InCirc" -> "InCirc"

\* HoughSlicer.easing (slicer.py lines 37-63) as a double; the branches of
\* InSine and InCirc are lines 51-53 and 59-61
HoughSlicer_easing_double(easing_type, x) ==
    CASE easing_type = "InSine" ->
             TimesWhole(Sign(x) * 32, FloatSub(Double(Cot(1), 0), math_cos_x_pi_64(x)))
      [] easing_type = "InCirc" ->
             TimesWhole(Sign(x), FloatSub(Double(Cot(32), 0), math_sqrt(1024 - x * x)))
      [] OTHER -> Double(HoughSlicer_easing(easing_type, x), 0)

\* the easing a name selects on a path: HoughSlicer.easing takes every name
\* that is none of InSine, InSquare, InCubic and InCirc for Linear
SelectedEasing(path, name) ==
    IF path = "legacy" /\ name \notin {"InSine", "InSquare", "InCubic", "InCirc"}
    THEN "Linear"
    ELSE name

\* ease(x) on the object of a path
EaseOn(path, name, x) ==
    IF path = "factory" THEN EasingStrategy_ease(name, x)
    ELSE HoughSlicer_easing_double(name, x)

\* the argument of the lower and of the upper bound of a slice
\* (track_slicer.py lines 52-53, slicer.py lines 83-85)
LoArg(slice_num) == (0 - 32) + 2 * Max(slice_num, 0)
HiArgOfSameSlice(slice_num) == (0 - 32) + 2 * Min(slice_num, 32)
HiArg(slice_num) == (0 - 32) + 2 * Min(slice_num + 1, 32)

\* TrackSlicerService.get_slice_bounds (track_slicer.py lines 39-54) and
\* HoughSlicer.__call__ (slicer.py lines 65-86) on the object of a path
BoundsOn(path, name, slice_num) ==
    IF slice_num = 0 - 1
    THEN [lo_cot |-> None, hi_cot |-> None]
    ELSE [lo_cot |-> EaseOn(path, name, LoArg(slice_num)),
          hi_cot |-> EaseOn(path, name, HiArg(slice_num))]

\* the names drawn: the five variants and one that is none of them
SelNames == EasingStrategyFactory_strategies \cup {"OutBack"}

\* the slices drawn for get_slice_bounds: -1 and every slice 0..32
SelSlices == (0 - 1)..32

SelIdle ==
    /\ sel_pc = "idle"
    /\ sel_calls = <<>>

SelInit ==
    /\ sel_path \in {"factory", "legacy"}
    /\ sel_name \in SelNames
    /\ SelIdle

\* EasingStrategyFactory.create (lines 130-137) with a registered name;
\* HoughSlicer.__init__ (slicer.py lines 26-35) with any name
SelCreate ==
    /\ sel_pc = "idle"
    /\ sel_path = "factory" => sel_name \in EasingStrategyFactory_strategies
    /\ sel_pc' = "created"
    /\ UNCHANGED <<sel_path, sel_name, sel_calls>>
    /\ UNCHANGED not_sel_vars

\* EasingStrategyFactory.create lines 131-136: ValueError
SelCreateRaises ==
    /\ sel_pc = "idle"
    /\ sel_path = "factory"
    /\ sel_name \notin EasingStrategyFactory_strategies
    /\ sel_pc' = "raised"
    /\ UNCHANGED <<sel_path, sel_name, sel_calls>>
    /\ UNCHANGED not_sel_vars

\* one call of ease(x) / easing(x)
SelEase ==
    /\ sel_pc = "created"
    /\ Len(sel_calls) < MaxCalls
    /\ \E x \in EaseArgs(SelectedEasing(sel_path, sel_name)) :
           sel_calls' = Append(sel_calls,
                               [op |-> "ease", arg |-> x,
                                result |-> EaseOn(sel_path, sel_name, x)])
    /\ UNCHANGED <<sel_pc, sel_path, sel_name>>
    /\ UNCHANGED not_sel_vars

\* one call of get_slice_bounds(slice_num) / __call__(slice_num)
SelBounds ==
    /\ sel_pc = "created"
    /\ Len(sel_calls) < MaxCalls
    /\ \E slice_num \in SelSlices :
           /\ slice_num # 0 - 1 =>
                  /\ HasRationalValue(SelectedEasing(sel_path, sel_name), LoArg(slice_num))
                  /\ HasRationalValue(SelectedEasing(sel_path, sel_name), HiArg(slice_num))
           /\ sel_calls' = Append(sel_calls,
                                  [op |-> "bounds", arg |-> slice_num,
                                   result |-> BoundsOn(sel_path, sel_name, slice_num)])
    /\ UNCHANGED <<sel_pc, sel_path, sel_name>>
    /\ UNCHANGED not_sel_vars

\* one call of name() on the strategy the factory created
SelAskName ==
    /\ sel_pc = "created"
    /\ sel_path = "factory"
    /\ Len(sel_calls) < MaxCalls
    /\ sel_calls' = Append(sel_calls,
                           [op |-> "name", arg |-> 0,
                            result |-> EasingStrategy_name(sel_name)])
    /\ UNCHANGED <<sel_pc, sel_path, sel_name>>
    /\ UNCHANGED not_sel_vars

SelNext == SelCreate \/ SelCreateRaises \/ SelEase \/ SelBounds \/ SelAskName

---------------------------------------------------------------------------
(* services/track_slicer.py, hough_processing.py: the slice filter of both programs *)

\* AnalysisConfig with the given easing, HoughConfig sizes and vz range
FilterConfig(easing_type, square_size, nbin_qpt, vz_max) ==
    [hough |-> [nbin_phi |-> NBIN_PHI, nbin_qpt |-> nbin_qpt,
                square_size |-> square_size, tolerance |-> Bins(TOLERANCE)],
     peak_detection |-> [threshold_abs |-> Bins(THRESHOLD_ABS),
                         min_distance |-> MIN_DISTANCE, smooth_sigma |-> 0],
     processing |-> [slice_list |-> SLICE_LIST, vz_range |-> <<0 - vz_max, vz_max>>],
     easing_type |-> easing_type]

\* the defaults under each easing, a narrower vz range, and a smaller grid
\* with a smaller square
FilterConfigs ==
    {FilterConfig("InSquare", SIZE, NBIN_QPT, 200),
     FilterConfig("Linear", SIZE, NBIN_QPT, 200),
     FilterConfig("InCubic", SIZE, NBIN_QPT, 200),
     FilterConfig("InSquare", SIZE, NBIN_QPT, 100),
     FilterConfig("InSquare", SmallSize, 2 * SIZE, 200)}

\* a track every configuration admits to every slice, and tracks that differ
\* from it in one field: vz on a bound of (-200, 200) and between the two vz
\* ranges; cotangent on the bounds -32 and 32 of the slices 0..32, inside them,
\* on the bounds -4.5 and 6.125 of slice -1 under InSquare, and inside them
\* under InSquare and Linear but not under InCubic; curvature bin on the bounds
\* 16 and 200 of slice -1, half a bin inside, and inside for the smaller
\* square only
FilterTracks ==
    {Track(1, Bins(50), Bins(20), 0, Cot(0)),
     Track(1, Bins(50), Bins(20), 200, Cot(0)),
     Track(1, Bins(50), Bins(20), 0 - 200, Cot(0)),
     Track(1, Bins(50), Bins(20), 150, Cot(0)),
     Track(1, Bins(50), Bins(20), 0, Cot(0 - 32)),
     Track(1, Bins(50), Bins(20), 0, Cot(32)),
     Track(1, Bins(50), Bins(20), 0, Cot(31)),
     Track(1, Bins(50), Bins(20), 0, 0 - 4608),
     Track(1, Bins(50), Bins(20), 0, 6272),
     Track(1, Bins(50), Bins(20), 0, Cot(6)),
     Track(1, Bins(50), Bins(SIZE), 0, Cot(0)),
     Track(1, Bins(50), Bins(NBIN_QPT - SIZE), 0, Cot(0)),
     Track(1, Bins(50), Bins(SIZE) + 1, 0, Cot(0)),
     Track(1, Bins(50), Bins(3), 0, Cot(0))}

\* the slices drawn
FilterSlices == {0 - 1, 0, 7, 32}

\* the row of the truetracks DataFrame that holds a track
\* (track_analysis.py lines 61-75, particle_repository.py: the same columns)
RowOfTrack(track) ==
    TrueTrackRow(track.phi_bin, track.curv_bin, track.vz, track.pz_over_pt)

FltIdle ==
    /\ flt_service_pc = "idle"
    /\ flt_filtered = <<>>
    /\ flt_legacy_pc = "idle"
    /\ flt_mask = <<>>

FltInit ==
    /\ flt_config \in FilterConfigs
    /\ flt_heap \in SeqsUpTo(FilterTracks, MaxTracks)
    /\ flt_slice_num \in FilterSlices
    /\ FltIdle

\* TrackSlicerService.filter_tracks_for_slice on the event's collection
FltService ==
    /\ flt_service_pc = "idle"
    /\ flt_filtered' = filter_tracks_for_slice(flt_heap, [k \in 1..Len(flt_heap) |-> k],
                                               flt_slice_num, flt_config).tracks
    /\ flt_service_pc' = "returned"
    /\ UNCHANGED <<flt_config, flt_heap, flt_slice_num, flt_legacy_pc, flt_mask>>
    /\ UNCHANGED not_flt_vars

\* match_and_write lines 151-169 on the rows of the event
FltLegacy ==
    /\ flt_legacy_pc = "idle"
    /\ RowsIndexable(flt_heap)
    /\ flt_mask' = AdmissionMask([k \in 1..Len(flt_heap) |-> RowOfTrack(flt_heap[k])],
                                 flt_slice_num)
    /\ flt_legacy_pc' = "returned"
    /\ UNCHANGED <<flt_config, flt_heap, flt_slice_num, flt_service_pc, flt_filtered>>
    /\ UNCHANGED not_flt_vars

\* match_and_write lines 151 and 159: IndexError on an event of fewer than two
\* rows
FltLegacyRaises ==
    /\ flt_legacy_pc = "idle"
    /\ ~RowsIndexable(flt_heap)
    /\ flt_legacy_pc' = "raised"
    /\ UNCHANGED <<flt_config, flt_heap, flt_slice_num, flt_service_pc, flt_filtered,
                   flt_mask>>
    /\ UNCHANGED not_flt_vars

FltNext == FltService \/ FltLegacy \/ FltLegacyRaises

---------------------------------------------------------------------------
(* services/hough_matcher.py: two calls of update_track_reconstruction_status
   on collections of one event, interleaved at the reads and writes of
   Track.is_reconstructed *)

\* the two calls
Calls == {1, 2}

\* the order-preserving selections of the identities 1..n: what a slice filter
\* can make of the event's collection
Selections(n) ==
    {SelectSeq([k \in 1..n |-> k], LAMBDA t : t \in S) : S \in SUBSET (1..n)}

\* the collections with a 0/1 assignment mask of their length
MaskedSelections(n) ==
    {<<tracks, mask>> : tracks \in Selections(n), mask \in SeqsUpTo({0, 1}, n)}

\* line 172: both calls before their loops
UpdStart ==
    /\ upd_pc = [c \in Calls |-> "test"]
    /\ upd_idx = [c \in Calls |-> 1]
    /\ upd_count = [c \in Calls |-> 0]

UpdInit ==
    /\ \E flags \in [1..MaxTracks -> BOOLEAN] :
           /\ upd_prior = flags
           /\ upd_heap = [t \in 1..MaxTracks |->
                             [Track(1, 0, 0, 0, 0) EXCEPT !.is_reconstructed = flags[t]]]
    /\ \E a \in MaskedSelections(MaxTracks), b \in MaskedSelections(MaxTracks) :
           /\ Len(a[1]) = Len(a[2])
           /\ Len(b[1]) = Len(b[2])
           /\ upd_tracks = <<a[1], b[1]>>
           /\ upd_masks = <<a[2], b[2]>>
    /\ UpdStart

\* the track the loop of a call is at
TrackAt(c) == upd_tracks[c][upd_idx[c]]

\* line 175: the condition of one iteration.  The flag is read only when the
\* mask entry is > 0; the iteration passes to the next index when the
\* condition is false
UpdTest(c) ==
    /\ upd_pc[c] = "test"
    /\ upd_idx[c] <= Len(upd_tracks[c])
    /\ IF upd_masks[c][upd_idx[c]] > 0 /\ ~upd_heap[TrackAt(c)].is_reconstructed
       THEN /\ upd_pc' = [upd_pc EXCEPT ![c] = "write"]
            /\ UNCHANGED upd_idx
       ELSE /\ upd_idx' = [upd_idx EXCEPT ![c] = @ + 1]
            /\ UNCHANGED upd_pc
    /\ UNCHANGED <<upd_heap, upd_prior, upd_tracks, upd_masks, upd_count>>
    /\ UNCHANGED not_upd_vars

\* lines 176-177: track.mark_reconstructed() and the count
UpdMark(c) ==
    /\ upd_pc[c] = "write"
    /\ upd_heap' = [upd_heap EXCEPT ![TrackAt(c)] = mark_reconstructed(@)]
    /\ upd_count' = [upd_count EXCEPT ![c] = @ + 1]
    /\ upd_idx' = [upd_idx EXCEPT ![c] = @ + 1]
    /\ upd_pc' = [upd_pc EXCEPT ![c] = "test"]
    /\ UNCHANGED <<upd_prior, upd_tracks, upd_masks>>
    /\ UNCHANGED not_upd_vars

\* line 179
UpdReturn(c) ==
    /\ upd_pc[c] = "test"
    /\ upd_idx[c] > Len(upd_tracks[c])
    /\ upd_pc' = [upd_pc EXCEPT ![c] = "returned"]
    /\ UNCHANGED <<upd_heap, upd_prior, upd_tracks, upd_masks, upd_idx, upd_count>>
    /\ UNCHANGED not_upd_vars

UpdNext == \E c \in Calls : UpdTest(c) \/ UpdMark(c) \/ UpdReturn(c)

---------------------------------------------------------------------------
(* domain/hough_square.py: the calls on one HoughSquareCollection *)

MaxOps == 4

\* the squares handed to the collection: of either classification or
\* unclassified, of one of two sizes
CollSizes == {1, 2}
CollSquares ==
    {HoughSquare(Array2D(n, n, LAMBDA r, c : 1), cl, 0, 0) :
        n \in CollSizes, cl \in {TRUE_POSITIVE, FALSE_POSITIVE, UNCLASSIFIED}}

CallResult(op, status) == [op |-> op, status |-> status, X |-> <<>>, y |-> <<>>]

\* __init__ (lines 76-79)
CollStart ==
    /\ coll_squares = EmptyCollection
    /\ coll_ops = 0
    /\ coll_result = CallResult("__init__", "ok")

\* add_square (lines 93-100)
CollAddSquare ==
    /\ coll_ops < MaxOps
    /\ \E square \in CollSquares :
           /\ coll_squares' = add_square(coll_squares, square)
           /\ coll_result' = CallResult("add_square",
                                        IF square.classification = UNCLASSIFIED
                                        THEN "ValueError" ELSE "ok")
    /\ coll_ops' = coll_ops + 1
    /\ UNCHANGED not_coll_vars

\* add_true_positive (lines 81-85)
CollAddTruePositive ==
    /\ coll_ops < MaxOps
    /\ \E square \in CollSquares :
           /\ coll_squares' = add_true_positive(coll_squares, square).coll
           /\ coll_result' = CallResult("add_true_positive",
                                        add_true_positive(coll_squares, square).status)
    /\ coll_ops' = coll_ops + 1
    /\ UNCHANGED not_coll_vars

\* add_false_positive (lines 87-91)
CollAddFalsePositive ==
    /\ coll_ops < MaxOps
    /\ \E square \in CollSquares :
           /\ coll_squares' = add_false_positive(coll_squares, square).coll
           /\ coll_result' = CallResult("add_false_positive",
                                        add_false_positive(coll_squares, square).status)
    /\ coll_ops' = coll_ops + 1
    /\ UNCHANGED not_coll_vars

\* clear (lines 141-144)
CollClear ==
    /\ coll_ops < MaxOps
    /\ coll_squares' = clear(coll_squares)
    /\ coll_result' = CallResult("clear", "ok")
    /\ coll_ops' = coll_ops + 1
    /\ UNCHANGED not_coll_vars

\* get_training_data (lines 117-139), as save_squares calls it
\* (training_data_repository.py line 41)
CollGetTrainingData ==
    /\ coll_ops < MaxOps
    /\ coll_result' = [op |-> "get_training_data",
                       status |-> get_training_data(coll_squares).status,
                       X |-> get_training_data(coll_squares).X,
                       y |-> get_training_data(coll_squares).y]
    /\ coll_ops' = coll_ops + 1
    /\ UNCHANGED coll_squares
    /\ UNCHANGED not_coll_vars

CollNext ==
    \/ CollAddSquare
    \/ CollAddTruePositive
    \/ CollAddFalsePositive
    \/ CollClear
    \/ CollGetTrainingData

---------------------------------------------------------------------------
(* Specifications *)

\* the frames a specification does not run
PfUnused ==
    /\ pf_variant = "service"
    /\ pf_config = [threshold_abs |-> 0, min_distance |-> 1]
    /\ matrix = Array2D(0, 0, LAMBDA r, c : 0)
    /\ PfIdle

MatchUnused ==
    /\ match_config = [square_size |-> SmallSize, tolerance |-> 0]
    /\ accumulator_values = Array2D(0, 0, LAMBDA r, c : 0)
    /\ reconstructed_peaks = <<>>
    /\ true_tracks_list = <<>>
    /\ MatchIdle

FacadeUnused ==
    /\ facade_config = SmallConfig(0, <<>>, "Linear")
    /\ heap = <<>>
    /\ tracks_dict = <<>>
    /\ histograms = <<>>
    /\ CastUnobserved
    /\ FacadeStart

LegacyUnused ==
    /\ truetracks = <<>>
    /\ legacy_keys = <<>>
    /\ LegacyStart

SelUnused ==
    /\ sel_path = "factory"
    /\ sel_name = "InSquare"
    /\ SelIdle

FltUnused ==
    /\ flt_config = SmallConfig(0, <<>>, "Linear")
    /\ flt_heap = <<>>
    /\ flt_slice_num = 0
    /\ FltIdle

UpdUnused ==
    /\ upd_heap = <<>>
    /\ upd_prior = <<>>
    /\ upd_tracks = <<<<>>, <<>>>>
    /\ upd_masks = <<<<>>, <<>>>>
    /\ UpdStart

CollUnused == CollStart

\* HoughMatcherService.match_and_extract_squares on arbitrary arguments
MatchSpecInit == MatchInit /\ PfUnused /\ FacadeUnused /\ LegacyUnused /\ SelUnused /\ FltUnused /\ UpdUnused /\ CollUnused
MatchSpec == MatchSpecInit /\ [][MatchNext]_vars

\* the selection of an easing by name and the calls made on it
SelSpecInit ==
    /\ SelInit
    /\ MatchUnused /\ PfUnused /\ FacadeUnused /\ LegacyUnused /\ FltUnused /\ UpdUnused /\ CollUnused

\* the slice filter of both programs on arbitrary small events
FilterSpecInit ==
    /\ FltInit
    /\ MatchUnused /\ PfUnused /\ FacadeUnused /\ LegacyUnused /\ SelUnused /\ UpdUnused /\ CollUnused

\* two interleaved calls of update_track_reconstruction_status
UpdateSpecInit ==
    /\ UpdInit
    /\ MatchUnused /\ PfUnused /\ FacadeUnused /\ LegacyUnused /\ SelUnused /\ FltUnused
    /\ CollUnused
UpdateSpec == UpdateSpecInit /\ [][UpdNext]_vars

\* any sequence of calls on one collection
CollectionSpecInit ==
    /\ CollStart
    /\ MatchUnused /\ PfUnused /\ FacadeUnused /\ LegacyUnused /\ SelUnused /\ FltUnused
    /\ UpdUnused
CollectionSpec == CollectionSpecInit /\ [][CollNext]_vars
FilterSpec == FilterSpecInit /\ [][FltNext]_vars
SelSpec == SelSpecInit /\ [][SelNext]_vars

\* the peak finder on arbitrary small grids
PeakSpecInit == PfInit /\ MatchUnused /\ FacadeUnused /\ LegacyUnused /\ SelUnused /\ FltUnused /\ UpdUnused /\ CollUnused
PeakSpec == PeakSpecInit /\ [][PfNext]_vars

\* either program, main_refactored.py (the facade) or main.py, over a short
\* sequence of small histograms
Init ==
    /\ \/ FacadeInit /\ LegacyUnused
       \/ LegacyInit /\ FacadeUnused
    /\ MatchUnused
    /\ PfUnused
    /\ SelUnused /\ FltUnused /\ UpdUnused /\ CollUnused
Next == FacadeNext \/ LegacyNext
Spec == Init /\ [][Next]_vars

\* the facade over one histogram with two bins that are not zero
OrderSpecInit == OrderInit /\ LegacyUnused /\ MatchUnused /\ PfUnused /\ SelUnused /\ FltUnused /\ UpdUnused /\ CollUnused
OrderSpec == OrderSpecInit /\ [][FacadeNext]_vars

\* the facade over one histogram with a bin that is not finite
NonFiniteSpecInit == NonFiniteInit /\ LegacyUnused /\ MatchUnused /\ PfUnused /\ SelUnused /\ FltUnused /\ UpdUnused /\ CollUnused
NonFiniteSpec == NonFiniteSpecInit /\ [][FacadeNext]_vars

\* the facade over the scenario histogram
ScenarioSpecInit == ScenarioInit /\ LegacyUnused /\ MatchUnused /\ PfUnused /\ SelUnused /\ FltUnused /\ UpdUnused /\ CollUnused
ScenarioSpec == ScenarioSpecInit /\ [][FacadeNext]_vars

---------------------------------------------------------------------------
(* Claims about the matcher (MatchSpec) *)

\* the peaks consumed so far whose call returned a square
ValidPeaks == {k \in 1..Len(returned) : returned[k].square # NoSquare}

\* the shape of the clipped region of a peak, 0 along an axis where it is empty
ClippedShape(values, peak, size) ==
    LET b == SquareBounds(values, peak, size)
    IN <<Max(0, b.x_end - b.x_start), Max(0, b.y_end - b.y_start)>>

IsClipped(values, peak, size) ==
    ClippedShape(values, peak, size) # <<2 * size, 2 * size>>

\* track idx lies within the configured tolerance of peak k (Euclidean, inclusive)
TrackNear(k, idx) ==
    LET p == reconstructed_peaks[k]
        t == true_tracks_list[idx]
    IN (p.x - t.curv_bin) * (p.x - t.curv_bin) + (p.y - t.phi_bin) * (p.y - t.phi_bin)
           <= match_config.tolerance * match_config.tolerance

\* C1: in every call the assignment is injective (no two peaks claim the same
\* track), every mask entry is 0 or 1, the mask has one entry per admitted
\* track, and the sum of the mask is at most the number of peaks that
\* produced a valid square.
C1_InjectiveAssignment ==
    match_pc # "idle" =>
        /\ Len(assignment_mask) = Len(true_tracks_list)
        /\ \A idx \in 1..Len(assignment_mask) : assignment_mask[idx] \in {0, 1}
        /\ \A j, k \in 1..Len(returned) :
               (j # k /\ returned[j].matched_idx # 0)
                   => returned[j].matched_idx # returned[k].matched_idx
        /\ SumSeq(assignment_mask) <= Cardinality(ValidPeaks)

\* two peaks with valid squares both lie within tolerance of one track; the
\* earlier one claimed it and the later one did not
C1_Witness ==
    /\ match_pc = "returned"
    /\ \E j, k \in ValidPeaks : \E idx \in 1..Len(true_tracks_list) :
           /\ j < k
           /\ TrackNear(j, idx) /\ TrackNear(k, idx)
           /\ returned[j].matched_idx = idx
           /\ returned[k].matched_idx # idx

\* C2: a peak whose clipped extraction region is not exactly 2S x 2S is
\* discarded entirely: the iteration that consumes it adds no square and
\* leaves every assignment-mask entry unchanged.
C2_ClippedPeakDiscarded ==
    [][(/\ match_pc = "loop"
        /\ peak_pos < Len(reconstructed_peaks)
        /\ peak_pos' = peak_pos + 1
        /\ IsClipped(accumulator_values, reconstructed_peaks[peak_pos + 1],
                     match_config.square_size))
       => (square_collection' = square_collection
           /\ assignment_mask' = assignment_mask)]_vars

\* the peak consumed last was clipped while a track that is still unclaimed
\* lies within tolerance of it
C2_Witness ==
    /\ match_pc = "loop"
    /\ peak_pos >= 1
    /\ IsClipped(accumulator_values, reconstructed_peaks[peak_pos],
                 match_config.square_size)
    /\ \E idx \in 1..Len(true_tracks_list) :
           assignment_mask[idx] = 0 /\ TrackNear(peak_pos, idx)

\* the rows and columns a peak's window covers before any clipping
WindowRows(peak, size) ==
    IntOf(peak.y - Bins(size)) .. (IntOf(peak.y - Bins(size) + Bins(2 * size)) - 1)
WindowCols(peak, size) ==
    IntOf(peak.x - Bins(size)) .. (IntOf(peak.x - Bins(size) + Bins(2 * size)) - 1)

AllSquares(coll) ==
    {coll.true_positives[i] : i \in 1..Len(coll.true_positives)}
        \cup {coll.false_positives[i] : i \in 1..Len(coll.false_positives)}

\* C3: every returned square has data of exactly 2S rows by 2S columns and is
\* classified true_positive or false_positive; a peak whose window reaches
\* outside the grid returns no square.
C3_SquareShape ==
    LET size == match_config.square_size
        rows == accumulator_values.shape[1]
        cols == accumulator_values.shape[2]
    IN /\ \A sq \in AllSquares(square_collection) :
              /\ sq.data.shape = <<2 * size, 2 * size>>
              /\ DOMAIN sq.data.at = 0..(2 * size - 1)
              /\ \A r \in DOMAIN sq.data.at : DOMAIN sq.data.at[r] = 0..(2 * size - 1)
              /\ post_init_ok(sq.data)
              /\ sq.classification \in {TRUE_POSITIVE, FALSE_POSITIVE}
       /\ \A k \in ValidPeaks :
              /\ WindowRows(reconstructed_peaks[k], size) \subseteq 0..(rows - 1)
              /\ WindowCols(reconstructed_peaks[k], size) \subseteq 0..(cols - 1)
              /\ Cardinality(WindowRows(reconstructed_peaks[k], size)) = 2 * size
              /\ Cardinality(WindowCols(reconstructed_peaks[k], size)) = 2 * size

\* a call returned a square for one peak and none for another whose window
\* reaches over the last column only
C3_Witness ==
    /\ match_pc = "returned"
    /\ total_count(square_collection) >= 1
    /\ \E k \in 1..Len(returned) :
           /\ returned[k].square = NoSquare
           /\ WindowRows(reconstructed_peaks[k], match_config.square_size)
                  \subseteq 0..(accumulator_values.shape[1] - 1)
           /\ ClippedShape(accumulator_values, reconstructed_peaks[k],
                           match_config.square_size)[2] >= 1

\* the squares of the collection that are classified true_positive
TruePositives(coll) ==
    {i \in 1..Len(coll.true_positives) :
        coll.true_positives[i].classification = TRUE_POSITIVE}

\* C4: a square is true_positive iff its peak claimed a track; the mask
\* entries set are exactly those of the claimed tracks, each set by the one
\* iteration that claimed it from 0 to 1; the number of true_positive squares
\* equals the sum of the mask.
C4_ClassificationMatchesMask ==
    /\ [](match_pc # "idle" =>
            /\ \A k \in ValidPeaks :
                   (returned[k].square.classification = TRUE_POSITIVE)
                       <=> (\E idx \in 1..Len(assignment_mask) :
                                returned[k].matched_idx = idx)
            /\ \A k \in ValidPeaks :
                   returned[k].square.classification \in {TRUE_POSITIVE, FALSE_POSITIVE}
            /\ \A idx \in 1..Len(assignment_mask) :
                   (assignment_mask[idx] = 1)
                       <=> (\E k \in ValidPeaks : returned[k].matched_idx = idx)
            /\ \A i \in 1..Len(square_collection.false_positives) :
                   square_collection.false_positives[i].classification = FALSE_POSITIVE
            /\ Cardinality(TruePositives(square_collection))
                   = true_positive_count(square_collection)
            /\ true_positive_count(square_collection) = SumSeq(assignment_mask))
    /\ [][(match_pc = "loop" /\ peak_pos' = peak_pos + 1)
          => LET ret == returned'[peak_pos']
                 changed == {idx \in 1..Len(assignment_mask) :
                                assignment_mask'[idx] # assignment_mask[idx]}
             IN IF ret.square # NoSquare /\ ret.matched_idx # 0
                THEN /\ changed = {ret.matched_idx}
                     /\ assignment_mask[ret.matched_idx] = 0
                     /\ assignment_mask'[ret.matched_idx] = 1
                ELSE changed = {}]_vars

\* a call that returned a true_positive and a false_positive square
C4_Witness ==
    /\ match_pc = "returned"
    /\ true_positive_count(square_collection) >= 1
    /\ false_positive_count(square_collection) >= 1
    /\ SumSeq(assignment_mask) >= 1

---------------------------------------------------------------------------
(* Claims about the peak finder (PeakSpec) *)

\* the cells of a sequence of coordinates
CoordSet(coords) == {coords[k] : k \in 1..Len(coords)}

\* the cells whose centred (2d+1) x (2d+1) window lies inside the grid
InteriorCells(m, d) ==
    {rc \in Cells(m.shape[1], m.shape[2]) :
        /\ d <= rc[1] /\ rc[1] < m.shape[1] - d
        /\ d <= rc[2] /\ rc[2] < m.shape[2] - d}

\* the value at rc is the largest of its centred (2d+1) x (2d+1) window
IsWindowMaximum(m, d, rc) ==
    \A dr, dc \in (0 - d)..d : m.at[rc[1] + dr][rc[2] + dc] <= m.at[rc[1]][rc[2]]

\* C9: before merging, the candidates are exactly the positions (r, c) with
\* min_distance <= r < rows - min_distance and min_distance <= c < cols -
\* min_distance whose value is the maximum of the centred window of side
\* 2*min_distance + 1 and is at least threshold_abs; every candidate is
\* listed once.
C9_CandidateSet ==
    pf_pc \in {"merge", "returned"} =>
        LET d == pf_config.min_distance
        IN /\ CoordSet(peak_coords) =
                  {rc \in InteriorCells(matrix, d) :
                      /\ IsWindowMaximum(matrix, d, rc)
                      /\ matrix.at[rc[1]][rc[2]] >= pf_config.threshold_abs}
           /\ Cardinality(CoordSet(peak_coords)) = Len(peak_coords)

\* a positive threshold, a candidate whose value equals it, and a cell on the
\* border that holds the same value and is no candidate
C9_Witness ==
    /\ pf_pc = "merge"
    /\ pf_config.threshold_abs > 0
    /\ \E k \in 1..Len(peak_coords) :
           matrix.at[peak_coords[k][1]][peak_coords[k][2]] = pf_config.threshold_abs
    /\ \E rc \in Cells(PfRows, PfCols) \ InteriorCells(matrix, pf_config.min_distance) :
           matrix.at[rc[1]][rc[2]] = pf_config.threshold_abs

\* C10: any two distinct returned peaks lie strictly farther apart than
\* min_distance (Euclidean, grid indices), and every returned peak is at
\* least threshold_abs high.
C10_PeakSeparation ==
    pf_pc = "returned" =>
        /\ \A i, j \in 1..Len(pf_result) :
               i # j => cdist_sq(pf_result[i], pf_result[j])
                            > pf_config.min_distance * pf_config.min_distance
        /\ \A i \in 1..Len(pf_result) :
               matrix.at[pf_result[i][1]][pf_result[i][2]] >= pf_config.threshold_abs

\* a call returned two peaks after the merge removed a candidate that lay
\* exactly min_distance from the candidate that removed it
C10_Witness ==
    /\ pf_pc = "returned"
    /\ Len(pf_result) >= 2
    /\ \E k \in 1..Len(peak_coords) :
           /\ removed_by[k] # 0
           /\ cdist_sq(peak_coords[k], peak_coords[removed_by[k]])
                  = pf_config.min_distance * pf_config.min_distance

---------------------------------------------------------------------------
(* Claims about the facade over small histograms (Spec) *)

\* the histograms whose call has returned
Processed == {histograms[k] : k \in 1..hist_pos}

\* the heap as create_tracks_dict leaves it: no track reconstructed
Fresh(hp) == [id \in DOMAIN hp |-> [hp[id] EXCEPT !.is_reconstructed = FALSE]]

\* track id was admitted to the pass and claimed by one of its peaks
ClaimedIn(pass, id) ==
    \E idx \in 1..Len(pass.assignment_mask) :
        pass.filtered_tracks[idx] = id /\ pass.assignment_mask[idx] = 1

\* track id is admitted and claimed when the facade processes hough_hist as
\* its first histogram
ClaimedAlone(hough_hist, id) ==
    /\ InSeq(hough_hist.slice_num, facade_config.processing.slice_list)
    /\ hough_hist.event_id \in DOMAIN tracks_dict
    /\ ClaimedIn(SlicePass(facade_config, Fresh(heap), tracks_dict, hough_hist), id)

\* row i of the event was admitted to the match_and_write call and marked by
\* one of its peaks
MarkedIn(pass, event, i) ==
    /\ pass.event = event
    /\ i \in 1..Len(pass.mask)
    /\ pass.mask[i]
    /\ pass.true_peaks_mask[AdmittedUpTo(pass.mask, i)] = 1

\* the rows as create_true_tracks_dict leaves them: 'reco' all zero
FreshRows(rows) == [i \in 1..Len(rows) |-> [rows[i] EXCEPT !.reco = 0]]

\* row i of the event is admitted and marked when main.py processes obj as
\* its first key
MarkedAlone(obj, event, i) ==
    /\ obj.event_id = event
    /\ InSeq(obj.slice_num, SLICE_LIST)
    /\ MarkedIn(LegacyPass(event,
                           match_and_write(
                               Transpose(to_numpy(obj.histogram)[1]),
                               find_local_maxima_2d(obj.histogram, Bins(THRESHOLD_ABS),
                                                    MIN_DISTANCE).peaks,
                               obj.slice_num, FreshRows(truetracks[event]),
                               <<>>, <<>>)),
                event, i)

\* C5: the reconstructed flag of every track is monotonic: no step resets it,
\* after each pass it equals (its value before) OR (the track was admitted
\* and claimed in that pass), and at every moment it is determined by the
\* set of passes processed so far, whatever their order.  The same holds of
\* the 'reco' column main.py keeps.
C5_ReconstructedMonotonic ==
    /\ [][\A id \in DOMAIN heap :
              /\ heap[id].is_reconstructed => heap'[id].is_reconstructed
              /\ heap'[id].is_reconstructed
                     = (heap[id].is_reconstructed \/ ClaimedIn(last_pass', id))]_vars
    /\ [](\A id \in DOMAIN heap :
              heap[id].is_reconstructed = (\E h \in Processed : ClaimedAlone(h, id)))
    /\ [][\A event \in DOMAIN truetracks : \A i \in 1..Len(truetracks[event]) :
              /\ truetracks[event][i].reco = 1 => truetracks'[event][i].reco = 1
              /\ (truetracks'[event][i].reco = 1)
                     = (truetracks[event][i].reco = 1 \/ MarkedIn(legacy_pass', event, i))]_vars
    /\ [](\A event \in DOMAIN truetracks : \A i \in 1..Len(truetracks[event]) :
              (truetracks[event][i].reco = 1)
                  = (\E k \in 1..ikey : MarkedAlone(legacy_keys[k], event, i)))

\* a track claimed in the first pass was admitted to the second pass, which
\* did not claim it, and is still reconstructed
C5_Witness ==
    /\ hist_pos = 2
    /\ last_pass.outcome = "complete"
    /\ \E idx \in 1..Len(last_pass.filtered_tracks) :
           /\ last_pass.assignment_mask[idx] = 0
           /\ ClaimedAlone(histograms[1], last_pass.filtered_tracks[idx])
           /\ heap[last_pass.filtered_tracks[idx]].is_reconstructed

Range(s) == {s[k] : k \in 1..Len(s)}

\* C6: the filtered collection of a pass is an order-preserving subsequence of
\* the event's collection and holds the same Track objects, whichever slice
\* policy applied; a flag set through it shows on the track of the event's
\* collection.
C6_FilterKeepsIdentity ==
    last_pass.outcome = "complete" =>
        LET true_tracks == tracks_dict[histograms[hist_pos].event_id]
            filtered_tracks == last_pass.filtered_tracks
        IN /\ Range(filtered_tracks) \subseteq Range(true_tracks)
           /\ filtered_tracks
                  = SelectSeq(true_tracks, LAMBDA t : t \in Range(filtered_tracks))
           /\ \A idx \in 1..Len(filtered_tracks) :
                  last_pass.assignment_mask[idx] = 1
                      => \E pos \in 1..Len(true_tracks) :
                             /\ true_tracks[pos] = filtered_tracks[idx]
                             /\ heap[true_tracks[pos]].is_reconstructed

\* after a pass of slice -1 that claimed a track, a pass of slice 0 admitted
\* fewer tracks than the event has and claimed one whose index in the
\* filtered collection differs from its index in the event's collection
C6_Witness ==
    /\ hist_pos = 2
    /\ last_pass.outcome = "complete"
    /\ histograms[1].slice_num = 0 - 1
    /\ histograms[2].slice_num = 0
    /\ \E id \in DOMAIN heap : ClaimedAlone(histograms[1], id)
    /\ Len(last_pass.filtered_tracks) < Len(tracks_dict[histograms[2].event_id])
    /\ \E idx \in 1..Len(last_pass.filtered_tracks) :
           /\ last_pass.assignment_mask[idx] = 1
           /\ tracks_dict[histograms[2].event_id][idx] # last_pass.filtered_tracks[idx]

---------------------------------------------------------------------------
(* Claims about the end-to-end scenarios (ScenarioSpec) *)

\* the pass of the scenarios has returned: the track at phi bin 50, curvature
\* bin 62, vz 0 and cotangent 0, the slice processed, threshold_abs 5,
\* min_distance 2, and the given tolerance
ScenarioCase(tolerance) ==
    /\ hist_pos = 1
    /\ facade_pc = "running"
    /\ histograms[1].event_id = 1
    /\ InSeq(histograms[1].slice_num, facade_config.processing.slice_list)
    /\ facade_config.hough.tolerance = tolerance
    /\ facade_config.peak_detection.min_distance = MIN_DISTANCE
    /\ heap[1].curv_bin = Bins(62)
    /\ heap[1].vz = 0
    /\ heap[1].pz_over_pt = Cot(0)

\* the peak at the bin centre of row 50, column 60
ScenarioPeak ==
    Peak(BinCenters(histograms[1].histogram.xedges)[60 + 1],
         BinCenters(histograms[1].histogram.yedges)[50 + 1],
         Bins(12))

\* sq is a 2*SIZE x 2*SIZE square centred on the scenario peak: it carries the
\* peak's coordinates, and the peak's cell, the only one that is not zero, is
\* at row SIZE and column SIZE
ScenarioSquare(sq) ==
    /\ sq.data.shape = <<2 * SIZE, 2 * SIZE>>
    /\ sq.center_x = ScenarioPeak.x
    /\ sq.center_y = ScenarioPeak.y
    /\ \A r, c \in 0..(2 * SIZE - 1) :
           sq.data.at[r][c] = IF r = SIZE /\ c = SIZE THEN 12 ELSE 0

\* C7: in the positive scenario (tolerance 6) exactly one peak is detected, at
\* the bin centre of row 50 and column 60; the filter admits the track; the
\* matcher returns exactly one square, 32 x 32, true_positive and centred on
\* the peak; the mask is [1]; the track is reconstructed after the update.
C7_PositiveScenario ==
    ScenarioCase(Bins(TOLERANCE)) =>
        /\ last_pass.outcome = "complete"
        /\ last_pass.peaks = <<ScenarioPeak>>
        /\ last_pass.filtered_tracks = <<1>>
        /\ Len(last_pass.squares.true_positives) = 1
        /\ Len(last_pass.squares.false_positives) = 0
        /\ last_pass.squares.true_positives[1].classification = TRUE_POSITIVE
        /\ ScenarioSquare(last_pass.squares.true_positives[1])
        /\ last_pass.assignment_mask = <<1>>
        /\ heap[1].is_reconstructed

\* the positive scenario ran on slice -1 and the track is reconstructed
C7_Witness ==
    /\ ScenarioCase(Bins(TOLERANCE))
    /\ histograms[1].slice_num = 0 - 1
    /\ last_pass.assignment_mask = <<1>>
    /\ heap[1].is_reconstructed

\* C8: in the negative scenario (tolerance 1) the matcher still returns
\* exactly one 32 x 32 square; it is false_positive; the mask is [0]; the
\* track is not reconstructed after the update.
C8_NegativeScenario ==
    ScenarioCase(Bins(1)) =>
        /\ last_pass.outcome = "complete"
        /\ last_pass.filtered_tracks = <<1>>
        /\ Len(last_pass.squares.true_positives) = 0
        /\ Len(last_pass.squares.false_positives) = 1
        /\ last_pass.squares.false_positives[1].classification = FALSE_POSITIVE
        /\ ScenarioSquare(last_pass.squares.false_positives[1])
        /\ last_pass.assignment_mask = <<0>>
        /\ ~heap[1].is_reconstructed

\* the negative scenario ran on slice -1 and returned its square
C8_Witness ==
    /\ ScenarioCase(Bins(1))
    /\ histograms[1].slice_num = 0 - 1
    /\ total_count(last_pass.squares) = 1
    /\ ~heap[1].is_reconstructed

---------------------------------------------------------------------------
(* Claims about the data of the squares (MatchSpec) *)

\* the first row and the first column of the window of peak k
WindowOrigin(k) ==
    <<IntOf(reconstructed_peaks[k].y - Bins(match_config.square_size)),
      IntOf(reconstructed_peaks[k].x - Bins(match_config.square_size))>>

\* the cells of a square
SquareCells == (0..(2 * match_config.square_size - 1)) \X (0..(2 * match_config.square_size - 1))

\* the grid value (half units) under cell rc of the square of peak k
GridUnder(k, rc) ==
    accumulator_values.at[WindowOrigin(k)[1] + rc[1]][WindowOrigin(k)[2] + rc[2]]

\* C15 as stated: the data of the square of a peak whose region lies inside
\* the grid is element-wise identical to the grid slice of rows
\* [int(y - S), int(y - S) + 2S) and columns [int(x - S), int(x - S) + 2S).
C15_SquareIsSlice ==
    \A k \in ValidPeaks : \A rc \in SquareCells :
        Bins(returned[k].square.data.at[rc[1]][rc[2]]) = GridUnder(k, rc)

\* C15, amended: the data of the square is, element by element, the integer
\* part (truncation toward zero) of that grid slice, hence identical to it
\* where the grid values are whole numbers; the grid is not modified by the
\* call.
C15_SquareIsTruncatedSlice ==
    /\ [](\A k \in ValidPeaks : \A rc \in SquareCells :
             LET v == returned[k].square.data.at[rc[1]][rc[2]]
             IN /\ Bins(v) <= GridUnder(k, rc)
                /\ GridUnder(k, rc) < Bins(v + 1)
                /\ GridUnder(k, rc) % 2 = 0 => Bins(v) = GridUnder(k, rc))
    /\ [][accumulator_values' = accumulator_values]_vars

\* a call returned a square over cells that hold a half: its data is below
\* the grid values
C15_Witness ==
    /\ match_pc = "returned"
    /\ \E k \in ValidPeaks : \E rc \in SquareCells :
           Bins(returned[k].square.data.at[rc[1]][rc[2]]) < GridUnder(k, rc)

---------------------------------------------------------------------------
(* Claims about the merge and the order of the peaks (PeakSpec) *)

\* the value of candidate k
CandidateValue(k) == matrix.at[peak_coords[k][1]][peak_coords[k][2]]

\* candidates i and j lie within the merge distance of each other
CloseCandidates(i, j) ==
    LET d == MergeDistance(pf_variant, pf_config)
    IN /\ cdist_sq(peak_coords[i], peak_coords[j]) > 0
       /\ cdist_sq(peak_coords[i], peak_coords[j]) <= d * d

\* C11 as stated: of two candidates of equal value within min_distance of
\* each other exactly one survives the merge, the earlier-discovered one; of
\* two of different value the strictly lower one is discarded.
C11_EarlierOfClosePairSurvives ==
    pf_pc = "returned" =>
        \A i, j \in 1..Len(peak_coords) :
            (i < j /\ CloseCandidates(i, j)) =>
                IF CandidateValue(i) >= CandidateValue(j)
                THEN i \in peaks_to_keep /\ j \notin peaks_to_keep
                ELSE i \notin peaks_to_keep

\* C11, amended: of two candidates of equal value within min_distance of each
\* other at most one survives the merge, and the later-discovered one
\* survives only when the earlier one had been discarded by a still earlier
\* candidate; a step of the merge that examines a pair with both still kept
\* discards the later one on a tie and the strictly lower one otherwise, and
\* a step that examines any other pair discards nothing.
C11_MergeTieBreak ==
    /\ [](pf_pc = "returned" =>
            \A i, j \in 1..Len(peak_coords) :
                (i < j /\ CloseCandidates(i, j) /\ CandidateValue(i) = CandidateValue(j)) =>
                    /\ ~(i \in peaks_to_keep /\ j \in peaks_to_keep)
                    /\ j \in peaks_to_keep => removed_by[i] \in 1..(i - 1))
    /\ [][(pf_pc = "merge" /\ pair_pos' = pair_pos + 1) =>
             LET i == close_pairs[pair_pos'][1]
                 j == close_pairs[pair_pos'][2]
             IN IF i < j /\ i \in peaks_to_keep /\ j \in peaks_to_keep
                THEN peaks_to_keep' = peaks_to_keep \
                         {IF CandidateValue(i) >= CandidateValue(j) THEN j ELSE i}
                ELSE peaks_to_keep' = peaks_to_keep]_vars

\* three candidates of equal value in a chain: the first discarded the second,
\* and the third, within min_distance of the second only, survived with the
\* first
C11_Witness ==
    /\ pf_pc = "returned"
    /\ \E i, j, k \in 1..Len(peak_coords) :
           /\ i < j /\ j < k
           /\ CloseCandidates(i, j) /\ CloseCandidates(j, k) /\ ~CloseCandidates(i, k)
           /\ CandidateValue(i) = CandidateValue(j) /\ CandidateValue(j) = CandidateValue(k)
           /\ removed_by[j] = i
           /\ peaks_to_keep = {i, k}

\* C13: on every grid, also one with fewer than 2*min_distance + 1 rows or
\* columns, the peak finder raises no error: the positions whose window does
\* not fit are left out and a list of peaks, possibly empty, is returned.
C13_NoErrorOnAnyGrid == pf_pc # "raised"

---------------------------------------------------------------------------
(* Claims about the order of the peaks in a pass of the facade (OrderSpec) *)

\* peak p comes before peak q in row-major order of the grid: lower row
\* (y), or the same row and lower column (x)
RowMajorBefore(p, q) == p.y < q.y \/ (p.y = q.y /\ p.x < q.x)

\* the grid the facade hands to the matcher in the pass over histogram k
MatcherGrid(k) == Transpose(to_numpy(histograms[k].histogram)[1])

\* peak k of the last pass has a square, and an admitted track lies within
\* tolerance of it
ClaimingPeaks ==
    {k \in 1..Len(last_pass.peaks) :
        /\ ~IsClipped(MatcherGrid(hist_pos), last_pass.peaks[k],
                      facade_config.hough.square_size)
        /\ \E idx \in 1..Len(last_pass.filtered_tracks) :
               is_within_tolerance(
                   last_pass.peaks[k],
                   Peak(heap[last_pass.filtered_tracks[idx]].curv_bin,
                        heap[last_pass.filtered_tracks[idx]].phi_bin, 0),
                   facade_config.hough.tolerance)}

SquareCentre(sq) == <<sq.center_x, sq.center_y>>

\* C12: the peaks of a pass are in row-major order of their grid indices
\* whatever their heights, and the matcher visits them in that order: the
\* squares of either list follow the order of the peaks, and the first peak
\* with a square and an admitted track within tolerance is the first true
\* positive.
C12_RowMajorOrder ==
    last_pass.outcome = "complete" =>
        LET peaks == last_pass.peaks
            tp == last_pass.squares.true_positives
            fp == last_pass.squares.false_positives
        IN /\ \A j, k \in 1..Len(peaks) : j < k => RowMajorBefore(peaks[j], peaks[k])
           /\ \A j, k \in 1..Len(tp) :
                  j < k => RowMajorBefore([x |-> tp[j].center_x, y |-> tp[j].center_y],
                                          [x |-> tp[k].center_x, y |-> tp[k].center_y])
           /\ \A j, k \in 1..Len(fp) :
                  j < k => RowMajorBefore([x |-> fp[j].center_x, y |-> fp[j].center_y],
                                          [x |-> fp[k].center_x, y |-> fp[k].center_y])
           /\ ClaimingPeaks # {} =>
                  /\ Len(tp) >= 1
                  /\ \E k \in ClaimingPeaks :
                         /\ \A j \in ClaimingPeaks : k <= j
                         /\ SquareCentre(tp[1]) = <<peaks[k].x, peaks[k].y>>

\* two peaks, the second higher and at a lower column than the first, and one
\* admitted track within tolerance of both: the first peak took the track
C12_Witness ==
    /\ last_pass.outcome = "complete"
    /\ Len(last_pass.peaks) = 2
    /\ last_pass.peaks[2].height > last_pass.peaks[1].height
    /\ last_pass.peaks[2].x < last_pass.peaks[1].x
    /\ ClaimingPeaks = {1, 2}
    /\ Len(last_pass.filtered_tracks) = 1
    /\ Len(last_pass.squares.true_positives) = 1
    /\ Len(last_pass.squares.false_positives) = 1
    /\ SquareCentre(last_pass.squares.true_positives[1])
           = <<last_pass.peaks[1].x, last_pass.peaks[1].y>>

---------------------------------------------------------------------------
(* Claims about values that are not finite (NonFiniteSpec) *)

\* the grid of histogram k with every value that is not finite coerced to 0
SanitisedGrid(k) == nan_to_num(Transpose(to_numpy(histograms[k].histogram)[1]))

\* the data of sq is the integer part of the window of grid around its centre
SquareCutFrom(sq, grid, size) ==
    LET r0 == IntOf(sq.center_y - Bins(size))
        c0 == IntOf(sq.center_x - Bins(size))
    IN \A r \in 0..(2 * size - 1), c \in 0..(2 * size - 1) :
           sq.data.at[r][c] = IntOf(grid.at[r0 + r][c0 + c])

\* C14: the peaks of a pass are detected on the grid with every value that is
\* not finite coerced to 0, and every square of the pass is cut from that
\* grid: none holds a value that comes from a cell that is not finite.
C14_SquaresFromSanitisedGrid ==
    last_pass.outcome = "complete" =>
        /\ last_pass.peaks
               = DetectPeaks(SanitisedGrid(hist_pos),
                             to_numpy(histograms[hist_pos].histogram)[2],
                             to_numpy(histograms[hist_pos].histogram)[3],
                             facade_config.peak_detection).peaks
        /\ \A sq \in AllSquares(last_pass.squares) :
               SquareCutFrom(sq, SanitisedGrid(hist_pos), facade_config.hough.square_size)

---------------------------------------------------------------------------
(* Claims about the easings (SelSpec) *)

\* the calls of ease made so far at -32, 0 and 32 on an object of one of the
\* five variants
BoundaryCalls ==
    {k \in 1..Len(sel_calls) :
        /\ sel_name \in EasingStrategyFactory_strategies
        /\ sel_calls[k].op = "ease"
        /\ sel_calls[k].arg \in {0 - 32, 0, 32}}

\* C16 as stated: for every one of the five variants, in the strategy classes
\* and in HoughSlicer.easing, ease(-32) = -32, ease(0) = 0 and ease(32) = 32.
C16_BoundaryValuesExact ==
    \A k \in BoundaryCalls : sel_calls[k].result = Double(Cot(sel_calls[k].arg), 0)

\* C16: for every one of the five variants, in the strategy classes and in
\* HoughSlicer.easing, ease(0) = 0; ease(-32) = -32 and ease(32) = 32 for
\* Linear, InSquare, InCubic and InCirc; for InSine ease(-32) and ease(32) are
\* the doubles next to -32 and 32 on the side of zero (-31.999999999999996 and
\* 31.999999999999996).
C16_BoundaryValues ==
    \A k \in BoundaryCalls :
        sel_calls[k].result =
            Double(Cot(sel_calls[k].arg),
                   IF sel_name = "InSine"
                   THEN 0 - Sign(sel_calls[k].arg) * UlpAt(Cot(32), 0 - 1)
                   ELSE 0)

\* InSine has been eased at both ends of the domain by HoughSlicer.easing, and
\* neither value is the end itself
C16_Witness ==
    /\ sel_path = "legacy"
    /\ sel_name = "InSine"
    /\ BoundaryCalls = {1, 2}
    /\ sel_calls[1].arg = 0 - 32
    /\ sel_calls[2].arg = 32
    /\ sel_calls[1].result.off > 0
    /\ sel_calls[2].result.off < 0

\* C17: a name outside the five variants fails with a configuration error on
\* every selection path, the factory's and HoughSlicer's: no object is created
\* for it and no eased value or slice bound is ever computed with it.
C17_UnknownNameFails ==
    sel_name \notin EasingStrategyFactory_strategies =>
        /\ sel_pc \in {"idle", "raised"}
        /\ sel_calls = <<>>

---------------------------------------------------------------------------
(* Claims about the slice filter (FilterSpec) *)

\* the identities of the event's tracks, in the order of the collection
EventTracks == [k \in 1..Len(flt_heap) |-> k]

\* vz_range.lo < vz < vz_range.hi
VzInside(track) ==
    /\ flt_config.processing.vz_range[1] < track.vz
    /\ track.vz < flt_config.processing.vz_range[2]

\* bounds(lo_slice).lo < cotangent < bounds(hi_slice).hi
CotInside(track, lo_slice, hi_slice) ==
    /\ get_slice_bounds(flt_config.easing_type, lo_slice).lo_cot < track.pz_over_pt
    /\ track.pz_over_pt < get_slice_bounds(flt_config.easing_type, hi_slice).hi_cot

\* C18: for slice_num > -1 filter_tracks_for_slice admits a track iff
\* vz_range.lo < vz < vz_range.hi and bounds(0).lo < cotangent < bounds(32).hi,
\* all strict, so that every slice_num in 0..32 admits the same tracks.
C18_WideBand ==
    flt_service_pc = "returned" /\ flt_slice_num > 0 - 1 =>
        /\ flt_filtered
               = SelectSeq(EventTracks,
                           LAMBDA t : VzInside(flt_heap[t]) /\ CotInside(flt_heap[t], 0, 32))
        /\ \A t \in 1..Len(flt_heap) :
               \/ flt_heap[t].vz \in {flt_config.processing.vz_range[1],
                                       flt_config.processing.vz_range[2]}
               \/ flt_heap[t].pz_over_pt \in {Cot(0 - 32), Cot(32)}
               => ~InSeq(t, flt_filtered)
        /\ \A n \in 0..32 :
               filter_tracks_for_slice(flt_heap, EventTracks, n, flt_config).tracks
                   = flt_filtered

\* slice 7 has admitted the second of two tracks and rejected the first, whose
\* cotangent is the upper bound 32 of the band
C18_Witness ==
    /\ flt_service_pc = "returned"
    /\ flt_slice_num = 7
    /\ Len(flt_heap) = 2
    /\ flt_heap[1].pz_over_pt = Cot(32)
    /\ flt_heap[1].vz = 0
    /\ flt_heap[2].pz_over_pt = Cot(31)
    /\ flt_filtered = <<2>>

\* the tracks slice -1 admits by the rule of the claim
FullRangeAdmitted ==
    SelectSeq(EventTracks,
              LAMBDA t : /\ VzInside(flt_heap[t])
                         /\ CotInside(flt_heap[t], 10, 22)
                         /\ Bins(flt_config.hough.square_size) < flt_heap[t].curv_bin
                         /\ flt_heap[t].curv_bin
                                < Bins(flt_config.hough.nbin_qpt
                                           - flt_config.hough.square_size))

\* the rows the mask of match_and_write admits
MaskAdmitted == SelectSeq(EventTracks, LAMBDA t : flt_mask[t])

\* both programs have filtered the event for slice -1
BothFilteredFullRange ==
    /\ flt_slice_num = 0 - 1
    /\ flt_service_pc = "returned"
    /\ flt_legacy_pc = "returned"

\* the configuration has the vz range and the easing of match_and_write
LegacyRangeAndEasing ==
    /\ flt_config.processing.vz_range = <<0 - 200, 200>>
    /\ flt_config.easing_type = "InSquare"

---------------------------------------------------------------------------
(* Claims about the track a peak claims (MatchSpec) *)

\* the tracks claimed by the peaks before the k-th
ClaimedBefore(k) == {returned[j].matched_idx : j \in 1..(k - 1)} \ {0}

\* the square of the distance, in half bins, from the k-th peak to a track at
\* (curvature bin, angular bin)
SqDistance(k, idx) ==
    (reconstructed_peaks[k].x - true_tracks_list[idx].curv_bin)
        * (reconstructed_peaks[k].x - true_tracks_list[idx].curv_bin)
    + (reconstructed_peaks[k].y - true_tracks_list[idx].phi_bin)
        * (reconstructed_peaks[k].y - true_tracks_list[idx].phi_bin)

\* the tracks not claimed before the k-th peak and no further from it than the
\* tolerance
Claimable(k) ==
    {idx \in 1..Len(true_tracks_list) :
        /\ idx \notin ClaimedBefore(k)
        /\ SqDistance(k, idx) <= match_config.tolerance * match_config.tolerance}

\* C20: a peak with a valid square claims the lowest-index track that no
\* earlier peak has claimed and whose Euclidean distance from the peak is at
\* most the tolerance, whether or not a later unclaimed track is nearer; it
\* claims none when there is no such track.
C20_FirstFit ==
    \A k \in 1..peak_pos :
        returned[k].square # NoSquare =>
            IF Claimable(k) = {}
            THEN ~returned[k].has_match /\ returned[k].matched_idx = 0
            ELSE /\ returned[k].has_match
                 /\ returned[k].matched_idx \in Claimable(k)
                 /\ \A o \in Claimable(k) : returned[k].matched_idx <= o

\* the first peak has claimed the first track although the second, unclaimed,
\* was strictly nearer; the second peak has skipped the first track, which is
\* within its tolerance, and claimed the second
C20_Witness ==
    /\ peak_pos = 2
    /\ Len(true_tracks_list) = 2
    /\ returned[1].square # NoSquare
    /\ returned[1].matched_idx = 1
    /\ SqDistance(1, 2) < SqDistance(1, 1)
    /\ returned[2].square # NoSquare
    /\ SqDistance(2, 1) <= match_config.tolerance * match_config.tolerance
    /\ returned[2].matched_idx = 2

---------------------------------------------------------------------------
(* Claims about get_hough_squares of the program of main.py (Spec) *)

\* the step is a complete call of match_and_write
MatchAndWriteStep ==
    /\ HasNextKey
    /\ ikey' = ikey + 1
    /\ legacy_pass' # NoLegacyPass

\* the squares the step appended to the two lists
SquaresProduced ==
    (Len(true_squares') - Len(true_squares)) + (Len(false_squares') - Len(false_squares))

\* the entries of a 0/1 mask that are 1
Ones(mask) == {i \in 1..Len(mask) : mask[i] = 1}

\* C21: in get_hough_squares each peak claims at most one track per call, so
\* the entries of the true-track mask set to 1 are never more than the peaks
\* that produced a square.
C21_LegacyOneToOne ==
    [][MatchAndWriteStep =>
           Cardinality(Ones(legacy_pass'.true_peaks_mask)) <= SquaresProduced]_vars

\* C22: in get_hough_squares / match_and_write a peak whose clipped region is
\* not 2S x 2S produces no square and claims no track: a call none of whose
\* peaks produced a square leaves the true-track mask at zero and sets no reco
\* entry.
C22_ClippedPeakClaimsNothing ==
    [][MatchAndWriteStep /\ SquaresProduced = 0 =>
           /\ Ones(legacy_pass'.true_peaks_mask) = {}
           /\ truetracks' = truetracks]_vars

---------------------------------------------------------------------------
(* Claims about the consistency of the merge (PeakSpec) *)

\* the pair the next iteration of the merge loop examines
NextPair == close_pairs[pair_pos + 1]

\* C23: while the close pairs are processed, a candidate is discarded only by
\* an iteration whose pair holds it together with a candidate that is kept
\* before and after the iteration, and a discarded candidate is never
\* restored; both variants of the peak finder.
C23_TransitivelyConsistent ==
    /\ [][pf_pc = "merge" => peaks_to_keep' \subseteq peaks_to_keep]_vars
    /\ [][pf_pc = "merge" /\ peaks_to_keep' # peaks_to_keep =>
              /\ {NextPair[1], NextPair[2]} \subseteq peaks_to_keep
              /\ \E gone \in {NextPair[1], NextPair[2]} :
                     /\ peaks_to_keep' = peaks_to_keep \ {gone}
                     /\ {NextPair[1], NextPair[2]} \ {gone} \subseteq peaks_to_keep']_vars

\* the loop has ended; it examined a pair of a candidate discarded before and
\* a later candidate no further than the merge distance from it, and the
\* later candidate is kept
C23_Witness ==
    /\ pf_pc = "returned"
    /\ \E p \in 1..Len(close_pairs) :
           /\ close_pairs[p][1] < close_pairs[p][2]
           /\ removed_by[close_pairs[p][1]] # 0
           /\ removed_by[close_pairs[p][1]] < close_pairs[p][1]
           /\ close_pairs[p][2] \in peaks_to_keep

---------------------------------------------------------------------------
(* Claims about the slice bounds (SelSpec) *)

\* the calls of get_slice_bounds / __call__ made so far on an object of one of
\* the five variants
BoundsCalls ==
    {k \in 1..Len(sel_calls) :
        sel_name \in EasingStrategyFactory_strategies /\ sel_calls[k].op = "bounds"}

\* the path that is not the one of the object
OtherPath == IF sel_path = "factory" THEN "legacy" ELSE "factory"

\* the bounds in the fixed-point unit, as doubles
AsDoubles(bounds) ==
    [lo_cot |-> Double(bounds.lo_cot, 0), hi_cot |-> Double(bounds.hi_cot, 0)]

\* C24: get_slice_bounds(-1) is (None, None); for slice_num in 0..32 lo is
\* ease(-32 + 2*slice_num) and hi is ease of the argument one slice step
\* higher, capped at ease(32); TrackSlicerService.get_slice_bounds and
\* HoughSlicer.__call__ return the same bounds for the same easing name.
C24_SliceBounds ==
    \A k \in BoundsCalls :
        LET slice_num == sel_calls[k].arg
            bounds == sel_calls[k].result
        IN IF slice_num = 0 - 1
           THEN bounds = [lo_cot |-> None, hi_cot |-> None]
           ELSE /\ bounds.lo_cot = EaseOn(sel_path, sel_name, (0 - 32) + 2 * slice_num)
                /\ bounds.hi_cot
                       = EaseOn(sel_path, sel_name,
                                IF slice_num < 32
                                THEN (0 - 32) + 2 * (slice_num + 1) ELSE 32)
                /\ bounds = BoundsOn(OtherPath, sel_name, slice_num)
                /\ sel_name \in EasingNames =>
                       /\ bounds = AsDoubles(get_slice_bounds(sel_name, slice_num))
                       /\ bounds = AsDoubles(HoughSlicer_call(sel_name, slice_num))

\* HoughSlicer('InSquare') has returned the bounds of slice 31, whose upper
\* bound is ease(32) = 32, and of slice 32, whose two bounds are both 32
C24_Witness ==
    /\ sel_path = "legacy"
    /\ sel_name = "InSquare"
    /\ BoundsCalls = {1, 2}
    /\ sel_calls[1].arg = 31
    /\ sel_calls[2].arg = 32
    /\ sel_calls[1].result.lo_cot = Double(32 * (30 * 30), 0)
    /\ sel_calls[1].result.hi_cot = Double(Cot(32), 0)
    /\ sel_calls[2].result = [lo_cot |-> Double(Cot(32), 0), hi_cot |-> Double(Cot(32), 0)]

---------------------------------------------------------------------------
(* Claims about interleaved flag updates (UpdateSpec) *)

\* the mask of a call holds 1 for a track
MaskedIn(c, t) ==
    \E k \in 1..Len(upd_tracks[c]) : upd_tracks[c][k] = t /\ upd_masks[c][k] > 0

BothReturned == \A c \in Calls : upd_pc[c] = "returned"

\* C25: however the reads and writes of the flags by two calls of
\* update_track_reconstruction_status on one event interleave, when both have
\* returned the flag of each track is the OR of its value before the calls and
\* of the two calls' mask entries for it, and no step resets a flag.
C25_OrMerge ==
    /\ [](BothReturned =>
              \A t \in 1..Len(upd_heap) :
                  upd_heap[t].is_reconstructed
                      <=> (upd_prior[t] \/ MaskedIn(1, t) \/ MaskedIn(2, t)))
    /\ [][\A t \in 1..Len(upd_heap) :
              upd_heap[t].is_reconstructed => upd_heap'[t].is_reconstructed]_vars

\* both calls have read the flag of the same track as unset before either
\* wrote it, both have marked it, and both have returned
C25_Witness ==
    /\ BothReturned
    /\ \E t \in 1..Len(upd_heap) :
           /\ ~upd_prior[t]
           /\ MaskedIn(1, t)
           /\ MaskedIn(2, t)
           /\ upd_heap[t].is_reconstructed
           /\ upd_count[1] + upd_count[2]
                  > Cardinality({u \in 1..Len(upd_heap) :
                                    upd_heap[u].is_reconstructed /\ ~upd_prior[u]})

---------------------------------------------------------------------------
(* Claims about the names of the strategies (SelSpec) *)

\* C26: for every name n registered in EasingStrategyFactory, create(n).name()
\* returns n (and so distinct registered names give strategies of distinct
\* names).
C26_NameRoundTrip ==
    \A k \in 1..Len(sel_calls) :
        sel_calls[k].op = "name" => sel_calls[k].result = sel_name

---------------------------------------------------------------------------
(* Claims about the statistics of the facade (Spec) *)

\* the step is a call of _process_histogram that returns before the slice
\* filter: the slice is not in slice_list, or the event has no tracks
ReturnsEarlyStep ==
    /\ HasNext
    /\ hist_pos' = hist_pos + 1
    /\ \/ ~InSeq(NextHistogram.slice_num, facade_config.processing.slice_list)
       \/ NextHistogram.event_id \notin DOMAIN tracks_dict

\* C27: after any sequence of _process_histogram calls true_squares <=
\* true_tracks_total, total_events is the number of distinct ids in event_ids
\* (which holds none twice), and a histogram whose slice is not in slice_list
\* or whose event has no tracks changes neither true_tracks_total nor the
\* square counts.
C27_StatisticsConsistent ==
    /\ [](/\ stats.true_squares <= stats.true_tracks_total
          /\ stats.total_events = Cardinality(Range(stats.event_ids))
          /\ stats.total_events = Len(stats.event_ids))
    /\ [][ReturnsEarlyStep =>
              /\ stats'.true_tracks_total = stats.true_tracks_total
              /\ stats'.true_squares = stats.true_squares
              /\ stats'.false_squares = stats.false_squares]_vars

\* two passes of one event have each produced a true square, the second after
\* admitting a single track: the counts are equal after the second only
\* because the first added to true_tracks_total
C27_Witness ==
    /\ hist_pos = 2
    /\ last_pass.outcome = "complete"
    /\ Len(last_pass.filtered_tracks) = 1
    /\ stats.true_squares = 2
    /\ stats.true_tracks_total >= 2
    /\ stats.total_events = 1

\* a histogram of an event without tracks has been passed over after a pass
\* that counted tracks and squares
C27_WitnessEarlyReturn ==
    /\ hist_pos = 2
    /\ last_pass.outcome = "no_tracks"
    /\ stats.true_tracks_total > 0
    /\ stats.true_squares > 0
    /\ stats.total_events = 2

---------------------------------------------------------------------------
(* Claims about the notifications of the facade (Spec) *)

\* the notifications of slice (event_id, slice_num) in the observer's log
IsStartOf(entry, event_id, slice_num) ==
    entry = OnSliceStart(event_id, slice_num)
IsCompleteOf(entry, event_id, slice_num) ==
    /\ entry.cb = "on_slice_complete"
    /\ entry.event_id = event_id
    /\ entry.slice_num = slice_num

\* C28: every on_slice_start(event_id, slice_num) sent to the observer is
\* followed by exactly one on_slice_complete for the same (event_id,
\* slice_num) before the processing of that histogram ends, also for a
\* histogram whose event has no entry in the tracks dictionary.  Between two
\* calls of _process_histogram every start in the log is therefore directly
\* followed by its complete.
C28_StartHasComplete ==
    \A k \in 1..Len(observer_log) :
        observer_log[k].cb = "on_slice_start" =>
            /\ k < Len(observer_log)
            /\ IsCompleteOf(observer_log[k + 1],
                            observer_log[k].event_id, observer_log[k].slice_num)

\* C28 read for the calls that return only: a call that find_peaks leaves
\* by an exception is left aside
C28_StartHasCompleteUnlessRaised ==
    facade_pc = "running" => C28_StartHasComplete

---------------------------------------------------------------------------
(* Claims about the training data of a collection (CollectionSpec) *)

\* the latest call is get_training_data on a collection that is not empty
TrainingDataAsked ==
    coll_result.op = "get_training_data" /\ total_count(coll_squares) > 0

\* what the claim says of the lists and of the call
ListsClassified ==
    /\ \A k \in 1..Len(coll_squares.true_positives) :
           coll_squares.true_positives[k].classification = TRUE_POSITIVE
    /\ \A k \in 1..Len(coll_squares.false_positives) :
           coll_squares.false_positives[k].classification = FALSE_POSITIVE

TrainingDataReturned ==
    /\ coll_result.status = "ok"
    /\ Len(coll_result.X) = total_count(coll_squares)
    /\ coll_result.y = Labels(true_positive_count(coll_squares),
                              false_positive_count(coll_squares))

\* C29: for every collection reached by add_square / add_true_positive /
\* add_false_positive / clear with total_count > 0, also one holding only true
\* positives or only false positives, get_training_data returns without error
\* X with total_count samples and y with true_positive_count ones followed by
\* false_positive_count zeros; every stored true-positive element is
\* TRUE_POSITIVE and every false-positive element FALSE_POSITIVE.
C29_TrainingData ==
    /\ ListsClassified
    /\ TrainingDataAsked => TrainingDataReturned

\* all stored squares have one size
OneSize ==
    \A a, b \in Range(coll_squares.true_positives \o coll_squares.false_positives) :
        a.data.shape = b.data.shape

\* C29 for the collections whose squares all have one size, as the matcher
\* produces them
C29_TrainingDataOfOneSize ==
    /\ ListsClassified
    /\ (TrainingDataAsked /\ OneSize) => TrainingDataReturned

\* C29 for the collections of one size that hold squares of both lists: the
\* part of the claim the code keeps
C29_TrainingDataOfBothLists ==
    /\ ListsClassified
    /\ (/\ TrainingDataAsked
        /\ OneSize
        /\ true_positive_count(coll_squares) > 0
        /\ false_positive_count(coll_squares) > 0) => TrainingDataReturned

---------------------------------------------------------------------------
(* Claims about the values of close candidates (PeakSpec) *)

\* peak_values[k] (line 124)
PeakValue(k) == matrix.at[peak_coords[k][1]][peak_coords[k][2]]

\* the step is an iteration of the merge loop that removes a candidate
MergeRemovesStep ==
    /\ pf_pc = "merge"
    /\ pair_pos' = pair_pos + 1
    /\ peaks_to_keep' # peaks_to_keep

\* C30: any two candidates at Euclidean distance 0 < d <= min_distance have
\* equal values, so an iteration of the merge loop that removes a candidate
\* removes the later one of its pair, never the earlier one (the else branch
\* of line 139 is not taken).
C30_ClosePairsEqual ==
    /\ [](pf_pc \in {"merge", "returned"} =>
              \A k \in 1..Len(close_pairs) :
                  PeakValue(close_pairs[k][1]) = PeakValue(close_pairs[k][2]))
    /\ [][MergeRemovesStep =>
              peaks_to_keep' = peaks_to_keep \ {close_pairs[pair_pos + 1][2]}]_vars

\* a call has returned in which two candidates above zero were close and the
\* later one was removed for the earlier
C30_Witness ==
    /\ pf_pc = "returned"
    /\ \E k \in 1..Len(removed_by) :
           /\ removed_by[k] # 0
           /\ removed_by[k] < k
           /\ PeakValue(k) > 0
           /\ PeakValue(removed_by[k]) = PeakValue(k)
           /\ k \notin peaks_to_keep
           /\ removed_by[k] \in peaks_to_keep

====
